---- MODULE Spec2Model ----
(***************************************************************************)
(* The news ingestion pipeline of tgbot: rss_parser.py (fingerprint,       *)
(* dedup, classification, the per-entry pipeline, the orchestrator),       *)
(* database.py (run record and run statistics) and llm.py (the LLM         *)
(* collaborator's wrappers).                                               *)
(*                                                                         *)
(* Text is a sequence of atoms.  A title or a content is a sequence of     *)
(* characters (one-character strings); a link is the scheme, the host's    *)
(* characters, then "/", path pieces, "?", query, "#", fragment.           *)
(* Substring tests are contiguous-subsequence tests on atoms.              *)
(***************************************************************************)
EXTENDS Integers, Sequences, FiniteSets, TLC

VARIABLES
    scenario,          \* the feeds' contents and the runs that are started
    now,               \* the wall clock, in hours
    db_lock,           \* rss_parser.db_lock: its holder, or NoOne
    news,              \* table news: a set of rows
    next_id,           \* the AUTOINCREMENT counter of table news
    newsletters,       \* table newsletters: a set of rows
    newsletter_stats,  \* table newsletter_stats: a sequence of rows
    rpc,               \* per run: position in collect_and_save_news
    run,               \* per run: newsletter_id, all_results, stats, returned
    wpc,               \* per feed worker: position in parse_feed/process_news_entry
    loc,               \* per feed worker: the locals of parse_feed/process_news_entry
    hist,              \* per feed worker: what happened to each entry (history)
    probe              \* one call of detect_topic: its arguments and what it did

vars == <<scenario, now, db_lock, news, next_id, newsletters, newsletter_stats,
          rpc, run, wpc, loc, hist, probe>>

(***************************************************************************)
(* Bounds of the model.                                                    *)
(***************************************************************************)
\* how many hours the clock may advance during a behaviour
MaxTicks == 1

(***************************************************************************)
(* Characters.                                                             *)
(***************************************************************************)
Uppers == <<"A","B","C","D","E","F","G","H","I","J","K","L","M",
            "N","O","P","Q","R","S","T","U","V","W","X","Y","Z">>
Lowers == <<"a","b","c","d","e","f","g","h","i","j","k","l","m",
            "n","o","p","q","r","s","t","u","v","w","x","y","z">>
Digits == {"0","1","2","3","4","5","6","7","8","9"}
Spaces == {" ", "\t", "\n"}

Range(s) == {s[i] : i \in 1..Len(s)}

UpperLetters == Range(Uppers)
LowerLetters == Range(Lowers)
WordChars == LowerLetters \cup UpperLetters \cup Digits \cup {"_"}
LowerOf == [c \in UpperLetters |-> Lowers[CHOOSE i \in 1..Len(Uppers) : Uppers[i] = c]]

\* str.lower() on one atom
LowerAtom(c) == IF c \in UpperLetters THEN LowerOf[c] ELSE c

\* str.lower()
Lower(s) == [i \in 1..Len(s) |-> LowerAtom(s[i])]

\* the regular expression class \w
IsWordChar(c) == c \in WordChars

\* s[:n]
Take(s, n) == IF Len(s) <= n THEN s ELSE SubSeq(s, 1, n)

\* pat occurs in txt at position i
OccursAt(pat, txt, i) ==
    /\ i >= 1
    /\ i + Len(pat) - 1 <= Len(txt)
    /\ \A k \in 1..Len(pat) : txt[i + k - 1] = pat[k]

\* Python's `pat in txt`
Contains(pat, txt) == \E i \in 1..(Len(txt) + 1) : OccursAt(pat, txt, i)

\* txt.startswith(pat)
StartsWith(txt, pat) == OccursAt(pat, txt, 1)

\* s.split(sep)[0] for a one-atom separator
BeforeFirst(s, sep) ==
    IF \E i \in 1..Len(s) : s[i] = sep
    THEN SubSeq(s, 1, (CHOOSE i \in 1..Len(s) :
                          s[i] = sep /\ \A j \in 1..(i - 1) : s[j] # sep) - 1)
    ELSE s

\* re.sub(r'\s+', ' ', s): every run of whitespace becomes one space (written
\* without recursion, for long strings)
CollapseSpaces(s) ==
    LET marked == [i \in 1..Len(s) |->
                      IF s[i] \notin Spaces THEN s[i]
                      ELSE IF i < Len(s) /\ s[i + 1] \in Spaces THEN ""
                      ELSE " "]
        Kept(c) == c # ""
    IN  SelectSeq(marked, Kept)

\* the positions of s that hold no whitespace
NonSpaces(s) == {i \in 1..Len(s) : s[i] \notin Spaces}

LStrip(s) ==
    IF NonSpaces(s) = {} THEN <<>>
    ELSE SubSeq(s, CHOOSE i \in NonSpaces(s) : \A j \in NonSpaces(s) : i <= j, Len(s))

RStrip(s) ==
    IF NonSpaces(s) = {} THEN <<>>
    ELSE SubSeq(s, 1, CHOOSE i \in NonSpaces(s) : \A j \in NonSpaces(s) : i >= j)

\* str.strip()
Strip(s) == RStrip(LStrip(s))

(***************************************************************************)
(* rss_parser.normalize_title                                              *)
(***************************************************************************)
IsDigit(c) == c \in Digits
NotDigit(c) == ~IsDigit(c)
WordOrSpace(c) == IsWordChar(c) \/ c \in Spaces

\* variant: whitespace is collapsed and trimmed before digits and punctuation go
normalize_title_collapsing_first(title) ==
    IF title = <<>> THEN <<>>
    ELSE LET lowered == Lower(title)
             collapsed == Strip(CollapseSpaces(lowered))
             nodigits == SelectSeq(collapsed, NotDigit)
         IN  SelectSeq(nodigits, WordOrSpace)

normalize_title(title) ==
    IF title = <<>> THEN <<>>
    ELSE LET lowered == Lower(title)
             nodigits == SelectSeq(lowered, NotDigit)
             nopunct == SelectSeq(nodigits, WordOrSpace)
         IN  Strip(CollapseSpaces(nopunct))

(***************************************************************************)
(* Links.                                                                  *)
(***************************************************************************)
Schemes == {"https://", "http://"}
\* the atoms that end the host: the path's "/", "?" and "#"
IsPathAtom(a) == a \in {"/", "?", "#"}

RECURSIVE NetlocFrom(_)
NetlocFrom(s) ==
    IF s = <<>> \/ IsPathAtom(Head(s)) THEN <<>>
    ELSE <<Head(s)>> \o NetlocFrom(Tail(s))

\* urlparse(link).netloc: the atoms between the scheme and the path
Netloc(link) ==
    IF link # <<>> /\ Head(link) \in Schemes THEN NetlocFrom(Tail(link)) ELSE <<>>

\* urlparse(link).path: from the first path atom up to "?" or "#"
UrlPath(link) ==
    LET rest == IF link # <<>> /\ Head(link) \in Schemes
                THEN SubSeq(link, 2 + Len(Netloc(link)), Len(link))
                ELSE link
    IN  BeforeFirst(BeforeFirst(rest, "?"), "#")

(***************************************************************************)
(* rss_parser.fingerprint.  sha1 is modelled as injective: the key is the  *)
(* hashed string itself, the pair of its two parts.                        *)
(***************************************************************************)
FingerprintTitleLen == 100

\* variant: the host is taken as written
fingerprint_host_as_written(title, link) ==
    LET domain == Netloc(link)
        norm_title == normalize_title(title)
    IN  <<domain, Take(norm_title, FingerprintTitleLen)>>

fingerprint(title, link) ==
    LET domain == Lower(Netloc(link))
        norm_title == normalize_title(title)
    IN  <<domain, Take(norm_title, FingerprintTitleLen)>>

(***************************************************************************)
(* Configuration (config.py): the values the pipeline reads.               *)
(***************************************************************************)
SIMILARITY_THRESHOLD_PCT == 80
HIGH_CONFIDENCE_THRESHOLD == 4
MAX_NEWS_AGE_HOURS == 24
MAX_NEWS_PER_TOPIC == 1
MAX_PARALLEL_REQUESTS == 2
STRICT_BELARUS_ONLY == TRUE

\* TOPICS, in declaration order
TOPICS == <<"politics", "economy", "sport">>
TopicIds == Range(TOPICS)
NoTopic == "none"

TopicKeywords(tid) ==
    IF tid = "politics" THEN <<  <<"l","a","w">>, <<"v","o","t","e">>  >>
    ELSE IF tid = "economy" THEN <<  <<"t","a","x">>  >>
    ELSE <<  <<"C","u","p">>  >>

TopicExclude(tid) ==
    IF tid = "economy" THEN <<  <<"a","d">>  >> ELSE <<>>

\* ENTITY_TOPIC: entity -> topic, in declaration order
ENTITY_TOPIC == <<  <<  <<"m","p">>, "politics"  >>,
                    <<  <<"n","b","r","b">>, "economy"  >>,
                    <<  <<"n","h","l">>, "sport"  >>  >>

POLITICS_NEGATIVE == <<  <<"c","u","p">>, <<"s","k","i">>  >>
BELARUS_KEYWORDS == <<  <<"b","y">>  >>
RUSSIA_REGIONS == <<  <<"u","r","a","l">>  >>
BLACKLIST_DOMAINS == <<  <<"s","p","a","m">>  >>
BLACKLIST_KEYWORDS == <<  <<"p","r">>  >>

(***************************************************************************)
(* rss_parser.calculate_similarity / is_similar_news: difflib's            *)
(* SequenceMatcher.ratio() = 2*M/T, M the total size of the matching       *)
(* blocks found by recursive longest-match, T the two lengths added.       *)
(***************************************************************************)
Min(x, y) == IF x <= y THEN x ELSE y

\* the length of the common run of a from i and b from j, inside the windows
CommonLen(a, b, i, j, ahi, bhi) ==
    LET lim == Min(ahi - i + 1, bhi - j + 1)
        ok(k) == \A t \in 0..(k - 1) : a[i + t] = b[j + t]
    IN  CHOOSE k \in 0..lim : ok(k) /\ \A k2 \in (k + 1)..lim : ~ok(k2)

\* SequenceMatcher.find_longest_match: <<i, j, k>>, k maximal, then i, then j minimal
find_longest_match(a, b, alo, ahi, blo, bhi) ==
    LET cands == {<<i, j, CommonLen(a, b, i, j, ahi, bhi)>> : i \in alo..ahi, j \in blo..bhi}
        better(x, y) == \/ x[3] > y[3]
                        \/ x[3] = y[3] /\ x[1] < y[1]
                        \/ x[3] = y[3] /\ x[1] = y[1] /\ x[2] <= y[2]
    IN  IF cands = {} THEN <<alo, blo, 0>>
        ELSE CHOOSE x \in cands : \A y \in cands : better(x, y)

RECURSIVE matching_size(_, _, _, _, _, _)
\* the sum of the sizes of SequenceMatcher.get_matching_blocks()
matching_size(a, b, alo, ahi, blo, bhi) ==
    IF alo > ahi \/ blo > bhi THEN 0
    ELSE LET m == find_longest_match(a, b, alo, ahi, blo, bhi)
         IN  IF m[3] = 0 THEN 0
             ELSE m[3] + matching_size(a, b, alo, m[1] - 1, blo, m[2] - 1)
                       + matching_size(a, b, m[1] + m[3], ahi, m[2] + m[3], bhi)

\* calculate_similarity, as the pair <<2*M, T>> (the ratio is 2*M/T, 1 when T = 0)
calculate_similarity(t1, t2) ==
    LET a == Lower(t1)
        b == Lower(t2)
    IN  <<2 * matching_size(a, b, 1, Len(a), 1, Len(b)), Len(a) + Len(b)>>

\* variant: a ratio equal to the threshold counts as similar
is_similar_news_at_threshold(t1, t2) ==
    LET r == calculate_similarity(t1, t2)
    IN  IF r[2] = 0 THEN 100 >= SIMILARITY_THRESHOLD_PCT
        ELSE r[1] * 100 >= SIMILARITY_THRESHOLD_PCT * r[2]

\* is_similar_news: ratio > SIMILARITY_THRESHOLD, strictly
is_similar_news(t1, t2) ==
    LET r == calculate_similarity(t1, t2)
    IN  IF r[2] = 0 THEN 100 > SIMILARITY_THRESHOLD_PCT
        ELSE r[1] * 100 > SIMILARITY_THRESHOLD_PCT * r[2]

(***************************************************************************)
(* rss_parser.is_blacklisted, is_wrong_region                              *)
(***************************************************************************)
AnyIn(pats, txt) == \E i \in 1..Len(pats) : Contains(pats[i], txt)

is_blacklisted(url, title) ==
    LET netloc == Lower(Netloc(url))
        domain == IF netloc # <<>> /\ Head(netloc) = "www." THEN Tail(netloc) ELSE netloc
        path == Lower(UrlPath(url))
        title_lower == Lower(title)
    IN  \/ AnyIn(BLACKLIST_DOMAINS, domain)
        \/ AnyIn(BLACKLIST_KEYWORDS, path)
        \/ title # <<>> /\ AnyIn(BLACKLIST_KEYWORDS, title_lower)

is_wrong_region(text) ==
    LET t == Lower(text)
    IN  IF AnyIn(BELARUS_KEYWORDS, t) THEN FALSE
        ELSE IF ~AnyIn(RUSSIA_REGIONS, t) THEN FALSE
        ELSE TRUE

(***************************************************************************)
(* llm.validate_topic.  A reply of the LLM call is [ok, response]: ok is   *)
(* FALSE for a transport error, a timeout or a body without "response".    *)
(***************************************************************************)
ReplyYes == [ok |-> TRUE, response |-> <<"Y","E","S">>]
ReplyNo == [ok |-> TRUE, response |-> <<"N","o">>]
ReplyError == [ok |-> FALSE, response |-> <<>>]
ValidateReplies == {ReplyYes, ReplyNo, ReplyError}

validate_topic(reply) ==
    IF ~reply.ok THEN TRUE
    ELSE Contains(<<"y","e","s">>, Strip(Lower(reply.response)))

(***************************************************************************)
(* rss_parser.detect_topic                                                 *)
(***************************************************************************)
\* whether position p (between txt[p] and txt[p+1]) is a regex word boundary \b
IsBoundary(txt, p) ==
    LET before == p >= 1 /\ IsWordChar(txt[p])
        after == p + 1 <= Len(txt) /\ IsWordChar(txt[p + 1])
    IN  before # after

\* word_in_text: re.search(rf'\b{re.escape(word)}\b', target_text)
word_in_text(word, target_text) ==
    \E i \in 1..(Len(target_text) + 1) :
        /\ OccursAt(word, target_text, i)
        /\ IsBoundary(target_text, i - 1)
        /\ IsBoundary(target_text, i + Len(word) - 1)

RECURSIVE SumSeq(_)
SumSeq(s) == IF s = <<>> THEN 0 ELSE Head(s) + SumSeq(Tail(s))

\* pass 1: +3 for every entity of topic tid that occurs in the text
EntityScore(tid, text) ==
    SumSeq([i \in 1..Len(ENTITY_TOPIC) |->
               IF ENTITY_TOPIC[i][2] = tid /\ Contains(ENTITY_TOPIC[i][1], text)
               THEN 3 ELSE 0])

\* variant: `if` instead of `elif`, a keyword of the title also counts in the text
KeywordScoreCountingTwice(tid, title_lower, text) ==
    LET kws == TopicKeywords(tid)
    IN  IF AnyIn(TopicExclude(tid), text) THEN 0
        ELSE SumSeq([i \in 1..Len(kws) |->
                 (IF word_in_text(Lower(kws[i]), title_lower) THEN 2 ELSE 0)
                 + (IF word_in_text(Lower(kws[i]), text) THEN 1 ELSE 0)])

\* pass 2: the topic is skipped when an exclude term occurs in the text; otherwise
\* every keyword adds 2 when it is a word of the title, else 1 when a word of the text
KeywordScore(tid, title_lower, text) ==
    LET kws == TopicKeywords(tid)
    IN  IF AnyIn(TopicExclude(tid), text) THEN 0
        ELSE SumSeq([i \in 1..Len(kws) |->
                 IF word_in_text(Lower(kws[i]), title_lower) THEN 2
                 ELSE IF word_in_text(Lower(kws[i]), text) THEN 1
                 ELSE 0])

\* variant: the negative terms are charged to every topic
PenaltyScoreEveryTopic(tid, text) ==
    SumSeq([i \in 1..Len(POLITICS_NEGATIVE) |->
        IF Contains(POLITICS_NEGATIVE[i], text) THEN 2 ELSE 0])

\* pass 3: -2 for every negative term in the text, for topic politics only
PenaltyScore(tid, text) ==
    IF tid = "politics"
    THEN SumSeq([i \in 1..Len(POLITICS_NEGATIVE) |->
             IF Contains(POLITICS_NEGATIVE[i], text) THEN 2 ELSE 0])
    ELSE 0

\* the score of topic tid after the entity, keyword and penalty passes
TopicScore(tid, title_lower, text) ==
    EntityScore(tid, text) + KeywordScore(tid, title_lower, text) - PenaltyScore(tid, text)

\* scores: the score of every topic, by declaration index
TopicScores(title, content) ==
    LET text == Lower(title \o <<" ">> \o content)
        title_lower == Lower(title)
    IN  [i \in 1..Len(TOPICS) |-> TopicScore(TOPICS[i], title_lower, text)]

\* variant: an ascending sort that is reversed, which reverses equal scores too
TopicCandidatesTiesReversed(title, content) ==
    LET scores == TopicScores(title, content)
        cands == {i \in 1..Len(TOPICS) : scores[i] >= 2}
        before(i, j) == scores[i] > scores[j] \/ (scores[i] = scores[j] /\ i > j)
        pos(i) == 1 + Cardinality({j \in cands : before(j, i)})
    IN  [p \in 1..Cardinality(cands) |->
            LET i == CHOOSE i \in cands : pos(i) = p
            IN  <<TOPICS[i], scores[i]>>]

\* candidates with score >= 2, sorted by score descending, stable
TopicCandidates(title, content) ==
    LET scores == TopicScores(title, content)
        cands == {i \in 1..Len(TOPICS) : scores[i] >= 2}
        before(i, j) == scores[i] > scores[j] \/ (scores[i] = scores[j] /\ i < j)
        pos(i) == 1 + Cardinality({j \in cands : before(j, i)})
    IN  [p \in 1..Cardinality(cands) |->
            LET i == CHOOSE i \in cands : pos(i) = p
            IN  <<TOPICS[i], scores[i]>>]

\* detect_topic up to the sorted candidates: the region gate and the scoring
detect_topic_scoring(title, content) ==
    LET text == Lower(title \o <<" ">> \o content)
    IN  [region_skip |-> STRICT_BELARUS_ONLY /\ is_wrong_region(text),
         candidates |-> TopicCandidates(title, content)]

\* variant: None is returned when the LLM confirms no candidate
detect_topic_decision_without_fallback(scoring, llm) ==
    LET candidates == scoring.candidates
        first == candidates[1][1]
        second == candidates[2][1]
    IN  IF scoring.region_skip
        THEN [topic |-> NoTopic, calls |-> 0, asked |-> <<>>]
        ELSE IF candidates = <<>>
        THEN [topic |-> NoTopic, calls |-> 0, asked |-> <<>>]
        ELSE IF candidates[1][2] >= HIGH_CONFIDENCE_THRESHOLD
        THEN [topic |-> first, calls |-> 0, asked |-> <<>>]
        ELSE IF validate_topic(llm[1])
        THEN [topic |-> first, calls |-> 1, asked |-> <<first>>]
        ELSE IF Len(candidates) >= 2
        THEN IF validate_topic(llm[2])
             THEN [topic |-> second, calls |-> 2, asked |-> <<first, second>>]
             ELSE [topic |-> NoTopic, calls |-> 2, asked |-> <<first, second>>]
        ELSE [topic |-> NoTopic, calls |-> 1, asked |-> <<first>>]

\* detect_topic from the sorted candidates on, with its LLM calls counted;
\* llm[k] is the reply to the k-th call
detect_topic_decision(scoring, llm) ==
    LET candidates == scoring.candidates
        first == candidates[1][1]
        second == candidates[2][1]
    IN  IF scoring.region_skip
        THEN [topic |-> NoTopic, calls |-> 0, asked |-> <<>>]
        ELSE IF candidates = <<>>
        THEN [topic |-> NoTopic, calls |-> 0, asked |-> <<>>]
        ELSE IF candidates[1][2] >= HIGH_CONFIDENCE_THRESHOLD
        THEN [topic |-> first, calls |-> 0, asked |-> <<>>]
        ELSE IF validate_topic(llm[1])
        THEN [topic |-> first, calls |-> 1, asked |-> <<first>>]
        ELSE IF Len(candidates) >= 2
        THEN IF validate_topic(llm[2])
             THEN [topic |-> second, calls |-> 2, asked |-> <<first, second>>]
             ELSE [topic |-> first, calls |-> 2, asked |-> <<first, second>>]
        ELSE [topic |-> first, calls |-> 1, asked |-> <<first>>]

detect_topic(title, content, llm) ==
    detect_topic_decision(detect_topic_scoring(title, content), llm).topic

(***************************************************************************)
(* llm.analyze_news and llm._force_facts.  A reply of the LLM call is      *)
(* [kind, summary, important]: kind is "error" (transport or HTTP error,   *)
(* a body that is not JSON), "nojson" (no {...} in the text), "malformed"  *)
(* ({...} that json.loads rejects) or "json" (a parsed object with the     *)
(* given summary and important).  A summary is a sequence of atoms.        *)
(***************************************************************************)
LongSummary == <<"S">>
MidSummary == <<"M">>
TitleDefault(title) == [summary |-> Take(title, 300), important |-> 0]

\* len(summary): the atom "S" stands for a text of 100 characters or more, the
\* atom "M" for one of 50 to 99 characters
SummaryLen(summary) ==
    IF summary = LongSummary THEN 100
    ELSE IF summary = MidSummary THEN 50
    ELSE Len(summary)

force_facts(title, reply) ==
    IF reply.kind \in {"error", "malformed", "nojson"} THEN TitleDefault(title)
    ELSE [summary |-> IF SummaryLen(reply.summary) < 50
                      THEN Take(title, 300) ELSE Take(reply.summary, 1000),
          important |-> IF reply.important \in {"1", "true"} THEN 1 ELSE 0]

\* analyze_news with the number of its calls of _force_facts: reply1 answers its
\* own request, reply2 the request of _force_facts
analyze_news_calls(title, reply1, reply2) ==
    IF reply1.kind \in {"error", "malformed"}
    THEN [result |-> TitleDefault(title), forced |-> 0]
    ELSE IF reply1.kind = "nojson"
    THEN [result |-> force_facts(title, reply2), forced |-> 1]
    ELSE IF \/ SummaryLen(reply1.summary) < 100
            \/ Lower(reply1.summary) = Take(Lower(title), 100)
         THEN [result |-> force_facts(title, reply2), forced |-> 1]
         ELSE [result |-> [summary |-> reply1.summary,
                           important |-> IF reply1.important \in {"1", "true", "True"}
                                         THEN 1 ELSE 0],
               forced |-> 0]

analyze_news(title, reply1, reply2) == analyze_news_calls(title, reply1, reply2).result

(***************************************************************************)
(* rss_parser.check_for_duplicates over the rows of table news at time t.  *)
(***************************************************************************)
LOOKBACK_HOURS == 24

\* published >= datetime('now', '-24 hours')
InLookback(row, t) == row.published >= t - LOOKBACK_HOURS

\* variant: only the query string is cut off
CleanLinkKeepingFragment(link) == BeforeFirst(link, "?")

\* link.split('?')[0].split('#')[0]
CleanLink(link) == BeforeFirst(BeforeFirst(link, "?"), "#")

RECURSIVE LikeMatch(_, _)
\* SQLite's txt LIKE pat: "%" stands for any run of characters, "_" for any one
\* character, and ASCII letters match in either case
LikeMatch(txt, pat) ==
    IF pat = <<>> THEN txt = <<>>
    ELSE IF Head(pat) = "%"
    THEN \E k \in 0..Len(txt) : LikeMatch(SubSeq(txt, k + 1, Len(txt)), Tail(pat))
    ELSE /\ txt # <<>>
         /\ Head(pat) = "_" \/ LowerAtom(Head(txt)) = LowerAtom(Head(pat))
         /\ LikeMatch(Tail(txt), Tail(pat))

\* link LIKE ? with the parameter clean_link + '%'
LinkLike(stored, clean_link) == LikeMatch(stored, clean_link \o <<"%">>)

\* variant: the title comparison alone, without the query on the link
check_for_duplicates_by_title(title, topic, link, rows, t) ==
    LET scope == IF topic # NoTopic
                 THEN {r \in rows : r.topic = topic /\ InLookback(r, t)}
                 ELSE {r \in rows : InLookback(r, t)}
        norm_title == normalize_title(title)
        existing_norm(r) == IF r.normalized_title # <<>> THEN r.normalized_title
                            ELSE normalize_title(r.title)
    IN  \E r \in scope : is_similar_news(norm_title, existing_norm(r))

\* check_for_duplicates(title, topic, link, c) at time t, on the rows of table news
check_for_duplicates(title, topic, link, rows, t) ==
    LET clean_link == CleanLink(link)
        exact == \E r \in rows : LinkLike(r.link, clean_link) /\ InLookback(r, t)
        scope == IF topic # NoTopic
                 THEN {r \in rows : r.topic = topic /\ InLookback(r, t)}
                 ELSE {r \in rows : InLookback(r, t)}
        norm_title == normalize_title(title)
        existing_norm(r) == IF r.normalized_title # <<>> THEN r.normalized_title
                            ELSE normalize_title(r.title)
    IN  \/ exact
        \/ \E r \in scope : is_similar_news(norm_title, existing_norm(r))

(***************************************************************************)
(* Feed entries (what feedparser returns) and the scenarios: which runs    *)
(* are started, the configured feeds, and what each fetch returns.         *)
(***************************************************************************)
TitleTax1 == <<" ","T","a","x"," ","1","!">>
TitleTax2 == <<"t","a","x"," ","2">>
TitleTaxi == <<"t","a","x","i">>
TitleLaw == <<"l","a","w">>
TitleVote == <<"v","o","t","e">>
TitleBlank == <<" ">>
TitlePrLaw == <<"P","R"," ","l","a","w">>

LinkA1u1 == <<"https://","a",".","b","y","/","n1","?","u=1">>
LinkA1u2 == <<"https://","a",".","b","y","/","n1","?","u=2">>
LinkA2 == <<"https://","A",".","b","y","/","n2">>
LinkB3 == <<"https://","b",".","b","y","/","n3">>
LinkB4 == <<"https://","b",".","b","y","/","n4">>
LinkSpam == <<"https://","s","p","a","m",".","b","y","/","n5">>

EntryTax1 == [title |-> TitleTax1, link |-> LinkA1u1,
              published_parsed |-> <<0 - MAX_NEWS_AGE_HOURS>>, updated_parsed |-> <<>>]
EntryTax2 == [title |-> TitleTax2, link |-> LinkA2,
              published_parsed |-> <<-1>>, updated_parsed |-> <<>>]
EntryTaxi == [title |-> TitleTaxi, link |-> LinkB3,
              published_parsed |-> <<>>, updated_parsed |-> <<-1>>]
EntryLaw == [title |-> TitleLaw, link |-> LinkA1u2,
             published_parsed |-> <<-1>>, updated_parsed |-> <<-2>>]
\* a title of 304 characters, all of which normalize_title keeps
TitleLong == <<"l","a","w"," ">> \o [i \in 1..300 |-> "a"]
EntryLongTitle == [title |-> TitleLong, link |-> LinkB4,
                   published_parsed |-> <<-1>>, updated_parsed |-> <<-1>>]
EntryNoDate == [title |-> TitleLaw, link |-> LinkB3,
                published_parsed |-> <<>>, updated_parsed |-> <<>>]

\* entries that process_news_entry refuses before it computes a fingerprint
EntryBlankTitle == [title |-> TitleBlank, link |-> LinkB3,
                    published_parsed |-> <<-1>>, updated_parsed |-> <<>>]
EntryNoLink == [title |-> TitleLaw, link |-> <<>>,
                published_parsed |-> <<-1>>, updated_parsed |-> <<>>]
EntrySpamLink == [title |-> TitleLaw, link |-> LinkSpam,
                  published_parsed |-> <<-1>>, updated_parsed |-> <<>>]
EntryPrTitle == [title |-> TitlePrLaw, link |-> LinkB3,
                 published_parsed |-> <<-1>>, updated_parsed |-> <<>>]
EntryOld == [title |-> TitleLaw, link |-> LinkB3,
             published_parsed |-> <<0 - MAX_NEWS_AGE_HOURS - 1>>, updated_parsed |-> <<-1>>]
EntryVote == [title |-> TitleVote, link |-> LinkB4,
              published_parsed |-> <<-2>>, updated_parsed |-> <<>>]

Runs == {"r1", "r2"}
FeedNames == {"b1", "b2", "b3", "g1", "g2", "g3"}
Main == "main"
Workers == Runs \X FeedNames
Threads == Runs \X (FeedNames \cup {Main})
NoOne == <<"none", "none">>

NoFeeds == [w \in Workers |-> <<>>]

ScenarioNames == {"one_run", "one_feed", "two_runs_fp", "two_runs_link", "two_runs_topic",
                  "long_title", "pools", "rerun", "contend"}

\* the scenarios in which run r2 is the scheduler's next call, made after r1 has ended
SequentialScenarios == {"rerun"}

ScenarioDef(name) ==
    IF name = "one_run"
    THEN [runs |-> {"r1"}, base |-> {"b1", "b2"}, queries |-> {"g1"},
          feed |-> [NoFeeds EXCEPT ![<<"r1", "b1">>] = <<EntryTax1, EntryLaw>>,
                                   ![<<"r1", "b2">>] = <<EntryTaxi>>,
                                   ![<<"r1", "g1">>] = <<EntryTax2>>]]
    ELSE IF name = "two_runs_fp"
    THEN [runs |-> Runs, base |-> {"b1"}, queries |-> {},
          feed |-> [NoFeeds EXCEPT ![<<"r1", "b1">>] = <<EntryTax1>>,
                                   ![<<"r2", "b1">>] = <<EntryTax2, EntryNoDate>>]]
    ELSE IF name = "two_runs_link"
    THEN [runs |-> Runs, base |-> {"b1"}, queries |-> {},
          feed |-> [NoFeeds EXCEPT ![<<"r1", "b1">>] = <<EntryTax1>>,
                                   ![<<"r2", "b1">>] = <<EntryLaw>>]]
    ELSE IF name = "two_runs_topic"
    THEN [runs |-> Runs, base |-> {"b1"}, queries |-> {},
          feed |-> [NoFeeds EXCEPT ![<<"r1", "b1">>] = <<EntryLaw>>,
                                   ![<<"r2", "b1">>] = <<EntryVote>>]]
    ELSE IF name = "rerun"
    THEN [runs |-> Runs, base |-> {"b1"}, queries |-> {},
          feed |-> [NoFeeds EXCEPT ![<<"r1", "b1">>] = <<EntryLaw, EntryVote>>,
                                   ![<<"r2", "b1">>] = <<EntryVote>>]]
    ELSE IF name = "contend"
    THEN [runs |-> {"r1"}, base |-> {"b1", "b2"}, queries |-> {},
          feed |-> [NoFeeds EXCEPT ![<<"r1", "b1">>] = <<EntryLaw>>,
                                   ![<<"r1", "b2">>] = <<EntryLaw>>]]
    ELSE IF name = "pools"
    THEN [runs |-> {"r1"}, base |-> {"b1", "b2", "b3"}, queries |-> {"g1", "g2", "g3"},
          feed |-> [NoFeeds EXCEPT ![<<"r1", "b1">>] = <<EntryNoDate>>,
                                   ![<<"r1", "g1">>] = <<EntryNoDate>>]]
    ELSE IF name = "long_title"
    THEN [runs |-> {"r1"}, base |-> {"b1"}, queries |-> {},
          feed |-> [NoFeeds EXCEPT ![<<"r1", "b1">>] = <<EntryLongTitle>>]]
    ELSE [runs |-> {"r1"}, base |-> {"b1"}, queries |-> {},
          feed |-> [NoFeeds EXCEPT ![<<"r1", "b1">>] =
                       <<EntryBlankTitle, EntryNoLink, EntrySpamLink, EntryPrTitle,
                         EntryNoDate, EntryOld, EntryLaw, EntryVote>>]]

Sc == ScenarioDef(scenario)

\* the source category parse_feed is called with
SourceOf(f) == IF f \in Sc.base THEN "rss" ELSE "google"

\* what the content extractor may return for a page ("" on any failure)
PipelineContents == {<<>>, <<"m","p">>, <<"a","d">>}

\* the replies the summarizer's LLM calls may get in the pipeline
PipelineAnalyzeReplies ==
    {[kind |-> "error", summary |-> <<>>, important |-> "0"],
     [kind |-> "json", summary |-> LongSummary, important |-> "1"]}

(***************************************************************************)
(* State after construction: an empty store (database.init_db), the lock   *)
(* free, every started run at the top of collect_and_save_news.            *)
(***************************************************************************)
NoFingerprint == <<<<>>, <<>>>>

\* no call of detect_topic is observed
NoProbe ==
    [stage |-> "off", title |-> <<>>, content |-> <<>>, llm |-> <<ReplyNo, ReplyNo>>,
     region_skip |-> FALSE, keyword |-> [i \in 1..Len(TOPICS) |-> 0],
     scores |-> [i \in 1..Len(TOPICS) |-> 0], candidates |-> <<>>,
     topic |-> NoTopic, calls |-> 0, asked |-> <<>>]

EmptyLocals ==
    [idx |-> 0, results |-> {}, title |-> <<>>, link |-> <<>>, published |-> 0,
     fp |-> NoFingerprint, content |-> <<>>, topic |-> NoTopic,
     summary |-> <<>>, important |-> 0]

NoStats == [t \in {} |-> [total |-> 0, important |-> 0]]

EmptyRun == [today |-> 0, pending |-> {}, newsletter_id |-> 0, all_results |-> {},
             stats |-> NoStats]

Init ==
    /\ scenario \in ScenarioNames
    /\ now = 0
    /\ db_lock = NoOne
    /\ news = {}
    /\ next_id = 1
    /\ newsletters = {}
    /\ newsletter_stats = <<>>
    /\ rpc = [r \in Runs |->
                IF r \notin ScenarioDef(scenario).runs THEN "off"
                ELSE IF scenario \in SequentialScenarios /\ r # "r1" THEN "scheduled"
                ELSE "create_insert"]
    /\ run = [r \in Runs |-> EmptyRun]
    /\ wpc = [w \in Workers |-> "off"]
    /\ loc = [w \in Workers |-> EmptyLocals]
    /\ hist = [w \in Workers |-> [fetch |-> "none", trail |-> <<>>, entries |-> <<>>]]
    /\ probe = NoProbe

\* time passes
Tick ==
    /\ now < MaxTicks
    /\ now' = now + 1
    /\ UNCHANGED <<probe, scenario, db_lock, news, next_id, newsletters, newsletter_stats,
                   rpc, run, wpc, loc, hist>>

(***************************************************************************)
(* rss_parser.parse_feed and process_news_entry, one feed worker w.        *)
(***************************************************************************)
MAX_FEED_ENTRIES == 15

\* feed.entries[:15]
EntriesOf(w) == Take(Sc.feed[w], MAX_FEED_ENTRIES)

PoolOf(w) == IF w[2] \in Sc.base THEN Sc.base ELSE Sc.queries
PoolSize(w) == IF w[2] \in Sc.base THEN MAX_PARALLEL_REQUESTS ELSE 2
RunningPcs == {"fetch", "entry", "fp_lock", "fp_read", "dup_lock", "dup_read", "extract",
               "classify", "summarize", "ins_lock", "recheck", "insert"}
Running(r, pool) == {f \in pool : wpc[<<r, f>>] \in RunningPcs}

\* variant: an exception in one entry leaves parse_feed, which returns []
EndEntryAbortingFeed(w, outcome, res) ==
    LET last == loc[w].idx >= Len(EntriesOf(w)) \/ outcome = "ERROR"
    IN  /\ loc' = [loc EXCEPT ![w] = [EmptyLocals EXCEPT
                       !.idx = IF last THEN loc[w].idx ELSE loc[w].idx + 1,
                       !.results = IF outcome = "ERROR" THEN {}
                                   ELSE loc[w].results \cup res]]
        /\ hist' = [hist EXCEPT ![w].trail = <<>>,
                                ![w].entries = Append(@, outcome)]
        /\ wpc' = [wpc EXCEPT ![w] = IF last THEN "done" ELSE "entry"]

\* the current entry of w ends with `outcome` and returns `res` (a set: empty for None);
\* the loop of parse_feed goes to the next entry or returns the results
EndEntry(w, outcome, res) ==
    LET last == loc[w].idx >= Len(EntriesOf(w))
    IN  /\ loc' = [loc EXCEPT ![w] = [EmptyLocals EXCEPT
                       !.idx = IF last THEN loc[w].idx ELSE loc[w].idx + 1,
                       !.results = loc[w].results \cup res]]
        /\ hist' = [hist EXCEPT ![w].trail = <<>>,
                                ![w].entries = Append(@, outcome)]
        /\ wpc' = [wpc EXCEPT ![w] = IF last THEN "done" ELSE "entry"]

\* the current entry moves on to position pc, leaving `stage` on its trail
Advance(w, pc, stage) ==
    /\ wpc' = [wpc EXCEPT ![w] = pc]
    /\ hist' = [hist EXCEPT ![w].trail = Append(@, stage)]

\* variant: every submitted task gets a thread at once
StartFeedUnbounded(w) ==
    /\ wpc[w] = "queued"
    /\ wpc' = [wpc EXCEPT ![w] = "fetch"]
    /\ UNCHANGED <<probe, scenario, now, db_lock, news, next_id, newsletters, newsletter_stats,
                   rpc, run, loc, hist>>

\* a pool thread takes the submitted task
StartFeed(w) ==
    /\ wpc[w] = "queued"
    /\ Cardinality(Running(w[1], PoolOf(w))) < PoolSize(w)
    /\ wpc' = [wpc EXCEPT ![w] = "fetch"]
    /\ UNCHANGED <<probe, scenario, now, db_lock, news, next_id, newsletters, newsletter_stats,
                   rpc, run, loc, hist>>

\* parse_feed: requests.get and feedparser.parse; any exception returns []
FetchFeed(w) ==
    /\ wpc[w] = "fetch"
    /\ \E ok \in BOOLEAN :
        IF ok /\ EntriesOf(w) # <<>>
        THEN /\ wpc' = [wpc EXCEPT ![w] = "entry"]
             /\ loc' = [loc EXCEPT ![w].idx = 1]
             /\ hist' = [hist EXCEPT ![w].fetch = "ok"]
        ELSE /\ wpc' = [wpc EXCEPT ![w] = "done"]
             /\ loc' = loc
             /\ hist' = [hist EXCEPT ![w].fetch = IF ok THEN "ok" ELSE "failed"]
    /\ UNCHANGED <<probe, scenario, now, db_lock, news, next_id, newsletters, newsletter_stats,
                   rpc, run>>

\* variant: an entry without a date gets the current time as its publish time
ValidateEntryWallClock(w) ==
    /\ wpc[w] = "entry"
    /\ \E entry \in {EntriesOf(w)[loc[w].idx]} :
       \E title \in {Strip(entry.title)}, link \in {BeforeFirst(entry.link, "?")} :
           LET published == IF entry.published_parsed # <<>> THEN entry.published_parsed[1]
                            ELSE IF entry.updated_parsed # <<>> THEN entry.updated_parsed[1]
                            ELSE now
           IN  IF title = <<>> \/ link = <<>> THEN EndEntry(w, "SKIP_EMPTY", {})
               ELSE IF is_blacklisted(link, title) THEN EndEntry(w, "SKIP_BLACKLIST", {})
               ELSE IF published < now - MAX_NEWS_AGE_HOURS THEN EndEntry(w, "SKIP_OLD", {})
               ELSE /\ loc' = [loc EXCEPT ![w].title = title, ![w].link = link,
                                          ![w].published = published,
                                          ![w].fp = fingerprint(title, link)]
                    /\ Advance(w, "fp_lock", "FINGERPRINTED")
    /\ UNCHANGED <<probe, scenario, now, db_lock, news, next_id, newsletters, newsletter_stats,
                   rpc, run>>

\* process_news_entry up to the fingerprint: title, link, blacklist, date, age;
\* title and link are assigned once, as the code's local variables are
ValidateEntry(w) ==
    /\ wpc[w] = "entry"
    /\ \E entry \in {EntriesOf(w)[loc[w].idx]} :
       \E title \in {Strip(entry.title)}, link \in {BeforeFirst(entry.link, "?")} :
           LET dated == entry.published_parsed # <<>> \/ entry.updated_parsed # <<>>
               published == IF entry.published_parsed # <<>> THEN entry.published_parsed[1]
                            ELSE entry.updated_parsed[1]
           IN  IF title = <<>> \/ link = <<>> THEN EndEntry(w, "SKIP_EMPTY", {})
               ELSE IF is_blacklisted(link, title) THEN EndEntry(w, "SKIP_BLACKLIST", {})
               ELSE IF ~dated THEN EndEntry(w, "SKIP_NO_DATE", {})
               ELSE IF published < now - MAX_NEWS_AGE_HOURS THEN EndEntry(w, "SKIP_OLD", {})
               ELSE /\ loc' = [loc EXCEPT ![w].title = title, ![w].link = link,
                                          ![w].published = published,
                                          ![w].fp = fingerprint(title, link)]
                    /\ Advance(w, "fp_lock", "FINGERPRINTED")
    /\ UNCHANGED <<probe, scenario, now, db_lock, news, next_id, newsletters, newsletter_stats,
                   rpc, run>>

\* `with db_lock:` entered by a feed worker
AcquireDbLock(w) ==
    /\ wpc[w] \in {"fp_lock", "dup_lock", "ins_lock"}
    /\ db_lock = NoOne
    /\ db_lock' = w
    /\ wpc' = [wpc EXCEPT ![w] = CASE wpc[w] = "fp_lock" -> "fp_read"
                                   [] wpc[w] = "dup_lock" -> "dup_read"
                                   [] OTHER -> "recheck"]
    /\ UNCHANGED <<probe, scenario, now, news, next_id, newsletters, newsletter_stats,
                   rpc, run, loc, hist>>

\* variant: a fingerprint miss goes straight to content extraction
FingerprintLookupThenExtract(w) ==
    /\ wpc[w] = "fp_read"
    /\ db_lock' = NoOne
    /\ \E ok \in BOOLEAN :
        IF ~ok THEN EndEntry(w, "ERROR", {})
        ELSE IF \E r \in news : r.fingerprint = loc[w].fp
        THEN EndEntry(w, "DUP_SKIP", {})
        ELSE loc' = loc /\ Advance(w, "extract", "FP_MISS")
    /\ UNCHANGED <<probe, scenario, now, news, next_id, newsletters, newsletter_stats, rpc, run>>

\* SELECT id FROM news WHERE fingerprint=?, then the lock is left
FingerprintLookup(w) ==
    /\ wpc[w] = "fp_read"
    /\ db_lock' = NoOne
    /\ \E ok \in BOOLEAN :
        IF ~ok THEN EndEntry(w, "ERROR", {})
        ELSE IF \E r \in news : r.fingerprint = loc[w].fp
        THEN EndEntry(w, "DUP_SKIP", {})
        ELSE loc' = loc /\ Advance(w, "dup_lock", "FP_MISS")
    /\ UNCHANGED <<probe, scenario, now, news, next_id, newsletters, newsletter_stats, rpc, run>>

\* variant: the first duplicate check whose lock is still held during extraction
FirstDupCheckKeepingLock(w) ==
    /\ wpc[w] = "dup_read"
    /\ \E ok \in BOOLEAN :
        IF ~ok THEN db_lock' = NoOne /\ EndEntry(w, "ERROR", {})
        ELSE IF check_for_duplicates(loc[w].title, NoTopic, loc[w].link, news, now)
        THEN db_lock' = NoOne /\ EndEntry(w, "DUP_SKIP", {})
        ELSE db_lock' = db_lock /\ loc' = loc /\ Advance(w, "extract", "DEDUP1_MISS")
    /\ UNCHANGED <<probe, scenario, now, news, next_id, newsletters, newsletter_stats, rpc, run>>

\* check_for_duplicates(title, None, link, c), then the lock is left
FirstDupCheck(w) ==
    /\ wpc[w] = "dup_read"
    /\ db_lock' = NoOne
    /\ \E ok \in BOOLEAN :
        IF ~ok THEN EndEntry(w, "ERROR", {})
        ELSE IF check_for_duplicates(loc[w].title, NoTopic, loc[w].link, news, now)
        THEN EndEntry(w, "DUP_SKIP", {})
        ELSE loc' = loc /\ Advance(w, "extract", "DEDUP1_MISS")
    /\ UNCHANGED <<probe, scenario, now, news, next_id, newsletters, newsletter_stats, rpc, run>>

\* extract_news_content(link): the page's text, "" on any failure
ExtractContent(w) ==
    /\ wpc[w] = "extract"
    /\ \E c \in PipelineContents : loc' = [loc EXCEPT ![w].content = c]
    /\ Advance(w, "classify", "CONTENT_EXTRACTED")
    /\ UNCHANGED <<probe, scenario, now, db_lock, news, next_id, newsletters, newsletter_stats,
                   rpc, run>>

\* variant: the entry goes on when detect_topic returns None
ClassifyEntryKeepingNone(w) ==
    /\ wpc[w] = "classify"
    /\ \E title \in {loc[w].title},
          content \in {IF loc[w].content # <<>> THEN Take(loc[w].content, 500)
                       ELSE loc[w].title} :
       \E scoring \in {detect_topic_scoring(title, content)} :
       \E llm \in [1..2 -> ValidateReplies] :
           /\ loc' = [loc EXCEPT ![w].topic = detect_topic_decision(scoring, llm).topic]
           /\ Advance(w, "summarize", "CLASSIFIED")
    /\ UNCHANGED <<probe, scenario, now, db_lock, news, next_id, newsletters, newsletter_stats,
                   rpc, run>>

\* detect_topic(title, content[:500] if content else title); the scoring is
\* evaluated once, the LLM's replies are drawn after it
ClassifyEntry(w) ==
    /\ wpc[w] = "classify"
    /\ \E title \in {loc[w].title},
          content \in {IF loc[w].content # <<>> THEN Take(loc[w].content, 500)
                       ELSE loc[w].title} :
       \E scoring \in {detect_topic_scoring(title, content)} :
       \E llm \in [1..2 -> ValidateReplies] :
           LET topic == detect_topic_decision(scoring, llm).topic
           IN  IF topic = NoTopic THEN EndEntry(w, "TOPIC_NONE_SKIP", {})
               ELSE /\ loc' = [loc EXCEPT ![w].topic = topic]
                    /\ Advance(w, "summarize", "CLASSIFIED")
    /\ UNCHANGED <<probe, scenario, now, db_lock, news, next_id, newsletters, newsletter_stats,
                   rpc, run>>

\* summary and importance: analyze_news unless the source is "google"
SummarizeEntry(w) ==
    /\ wpc[w] = "summarize"
    /\ IF SourceOf(w[2]) # "google"
       THEN \E r1 \in PipelineAnalyzeReplies, r2 \in PipelineAnalyzeReplies :
               LET analysis == analyze_news(loc[w].title, r1, r2)
               IN  loc' = [loc EXCEPT
                       ![w].summary = IF analysis.summary # <<>> THEN analysis.summary
                                      ELSE loc[w].title,
                       ![w].important = analysis.important]
       ELSE loc' = [loc EXCEPT ![w].summary = loc[w].title, ![w].important = 0]
    /\ Advance(w, "ins_lock", "SUMMARIZED")
    /\ UNCHANGED <<probe, scenario, now, db_lock, news, next_id, newsletters, newsletter_stats,
                   rpc, run>>

\* variant: the re-check in a `with` block of its own, the INSERT outside it
RecheckReleasingLock(w) ==
    /\ wpc[w] = "recheck"
    /\ db_lock' = NoOne
    /\ \E ok \in BOOLEAN :
        IF ~ok THEN EndEntry(w, "ERROR", {})
        ELSE IF check_for_duplicates(loc[w].title, loc[w].topic, loc[w].link, news, now)
        THEN EndEntry(w, "RACE_DUP_SKIP", {})
        ELSE loc' = loc /\ Advance(w, "insert", "RECHECK_MISS")
    /\ UNCHANGED <<probe, scenario, now, news, next_id, newsletters, newsletter_stats, rpc, run>>

\* variant: the early return on a duplicate leaves without releasing the lock
RecheckKeepingLockOnDuplicate(w) ==
    /\ wpc[w] = "recheck"
    /\ \E ok \in BOOLEAN :
        IF ~ok THEN db_lock' = NoOne /\ EndEntry(w, "ERROR", {})
        ELSE IF check_for_duplicates(loc[w].title, loc[w].topic, loc[w].link, news, now)
        THEN db_lock' = db_lock /\ EndEntry(w, "RACE_DUP_SKIP", {})
        ELSE db_lock' = db_lock /\ loc' = loc /\ Advance(w, "insert", "RECHECK_MISS")
    /\ UNCHANGED <<probe, scenario, now, news, next_id, newsletters, newsletter_stats, rpc, run>>

\* the re-check under the lock: check_for_duplicates(title, topic, link, c);
\* a duplicate or an exception leaves the `with` block, which releases the lock
RecheckDuplicates(w) ==
    /\ wpc[w] = "recheck"
    /\ \E ok \in BOOLEAN :
        IF ~ok THEN db_lock' = NoOne /\ EndEntry(w, "ERROR", {})
        ELSE IF check_for_duplicates(loc[w].title, loc[w].topic, loc[w].link, news, now)
        THEN db_lock' = NoOne /\ EndEntry(w, "RACE_DUP_SKIP", {})
        ELSE db_lock' = db_lock /\ loc' = loc /\ Advance(w, "insert", "RECHECK_MISS")
    /\ UNCHANGED <<probe, scenario, now, news, next_id, newsletters, newsletter_stats, rpc, run>>

\* the row process_news_entry inserts
NewRow(w, id) ==
    [id |-> id,
     title |-> Take(loc[w].title, 500),
     summary |-> Take(loc[w].summary, 1000),
     full_text |-> Take(loc[w].content, 4000),
     link |-> loc[w].link,
     topic |-> loc[w].topic,
     published |-> loc[w].published,
     fingerprint |-> loc[w].fp,
     important |-> loc[w].important,
     source |-> SourceOf(w[2]),
     fetched_at |-> now,
     real_source |-> Lower(Netloc(loc[w].link)),
     normalized_title |-> Take(normalize_title(loc[w].title), 200)]

\* variant: an INSERT into a table whose fingerprint column is not UNIQUE
InsertNewsNoUnique(rows, row) == rows \cup {row}

\* INSERT INTO news under the UNIQUE constraint on fingerprint: the rows after it
InsertNews(rows, row) ==
    IF \E r \in rows : r.fingerprint = row.fingerprint THEN rows ELSE rows \cup {row}

\* variant: a refused INSERT is reported as a stored article
InsertEntryCountingRefused(w) ==
    /\ wpc[w] = "insert"
    /\ db_lock' = NoOne
    /\ \E ok \in BOOLEAN :
        LET row == NewRow(w, next_id)
            rows == InsertNews(news, row)
        IN  IF ~ok
            THEN news' = news /\ next_id' = next_id /\ EndEntry(w, "ERROR", {})
            ELSE /\ news' = rows
                 /\ next_id' = next_id + 1
                 /\ EndEntry(w, "STORED", {[id |-> row.id, topic |-> row.topic,
                                           important |-> row.important]})
    /\ UNCHANGED <<probe, scenario, now, newsletters, newsletter_stats, rpc, run>>

\* INSERT, commit and the end of the `with` block; sqlite3.IntegrityError or any
\* other exception is caught by process_news_entry, which returns None
InsertEntry(w) ==
    /\ wpc[w] = "insert"
    /\ db_lock' = NoOne
    /\ \E ok \in BOOLEAN :
        LET row == NewRow(w, next_id)
            rows == InsertNews(news, row)
        IN  IF ~ok
            THEN news' = news /\ next_id' = next_id /\ EndEntry(w, "ERROR", {})
            ELSE IF row \notin rows
            THEN news' = news /\ next_id' = next_id /\ EndEntry(w, "INTEGRITY_ERROR", {})
            ELSE /\ news' = rows
                 /\ next_id' = next_id + 1
                 /\ EndEntry(w, "STORED", {[id |-> row.id, topic |-> row.topic,
                                           important |-> row.important]})
    /\ UNCHANGED <<probe, scenario, now, newsletters, newsletter_stats, rpc, run>>

(***************************************************************************)
(* database.create_newsletter and update_newsletter_stats                  *)
(***************************************************************************)
HOURS_PER_DAY == 24

\* the hour of the day at which the clock starts
StartHour == 23

\* datetime.now().date()
Today == (now + StartHour) \div HOURS_PER_DAY

\* variant: a plain INSERT into a table whose date column is not UNIQUE
InsertNewsletterAlways(rows, date) ==
    rows \cup {[id |-> Cardinality(rows) + 1, date |-> date]}

\* INSERT OR IGNORE INTO newsletters (newsletter_date): UNIQUE on the date
InsertNewsletter(rows, date) ==
    IF \E n \in rows : n.date = date THEN rows
    ELSE rows \cup {[id |-> Cardinality(rows) + 1, date |-> date]}

\* INSERT OR REPLACE INTO newsletter_stats, one row per topic of stats, in a table
\* without any key: every row is added
InsertStats(rows, newsletter_id, stats) ==
    LET present == SelectSeq(TOPICS, LAMBDA t : t \in DOMAIN stats)
    IN  rows \o [i \in 1..Len(present) |->
                    [newsletter_id |-> newsletter_id, topic |-> present[i],
                     total_news |-> stats[present[i]].total,
                     important_news |-> stats[present[i]].important]]

(***************************************************************************)
(* rss_parser.collect_and_save_news, one run r; its thread is <<r, Main>>. *)
(***************************************************************************)
\* the job queue calls collect_and_save_news again after the earlier call has ended
StartScheduledRun(r) ==
    /\ rpc[r] = "scheduled"
    /\ \A q \in Runs \ {r} : rpc[q] \in {"off", "returned", "crashed"}
    /\ rpc' = [rpc EXCEPT ![r] = "create_insert"]
    /\ UNCHANGED <<probe, scenario, now, db_lock, news, next_id, newsletters, newsletter_stats,
                   run, wpc, loc, hist>>

\* create_newsletter, first statement (db_lock is not taken); it opens the
\* connection's transaction, and SQLite makes it wait while another connection's
\* transaction has written and not committed; an exception leaves the run
CreateNewsletterInsert(r) ==
    /\ rpc[r] = "create_insert"
    /\ \E ok \in BOOLEAN :
        IF ok
        THEN /\ \A q \in Runs \ {r} : rpc[q] # "create_select"
             /\ newsletters' = InsertNewsletter(newsletters, Today)
             /\ run' = [run EXCEPT ![r].today = Today,
                                    ![r].pending = newsletters' \ newsletters]
             /\ rpc' = [rpc EXCEPT ![r] = "create_select"]
        ELSE /\ newsletters' = newsletters
             /\ run' = run
             /\ rpc' = [rpc EXCEPT ![r] = "crashed"]
    /\ UNCHANGED <<probe, scenario, now, db_lock, news, next_id, newsletter_stats, wpc, loc, hist>>

\* create_newsletter, SELECT id ... and commit; an exception leaves the run with
\* the transaction not committed, and its INSERT is rolled back
CreateNewsletterSelect(r) ==
    /\ rpc[r] = "create_select"
    /\ \E ok \in BOOLEAN :
        IF ok
        THEN /\ run' = [run EXCEPT ![r].pending = {},
                                    ![r].newsletter_id =
                           (CHOOSE n \in newsletters : n.date = run[r].today).id]
             /\ newsletters' = newsletters
             /\ rpc' = [rpc EXCEPT ![r] = "submit_base"]
        ELSE /\ run' = [run EXCEPT ![r].pending = {}]
             /\ newsletters' = newsletters \ run[r].pending
             /\ rpc' = [rpc EXCEPT ![r] = "crashed"]
    /\ UNCHANGED <<probe, scenario, now, db_lock, news, next_id, newsletter_stats, wpc, loc, hist>>

\* ex.submit(parse_feed, url, "rss") for url in BASE_RSS
SubmitBaseFeeds(r) ==
    /\ rpc[r] = "submit_base"
    /\ wpc' = [w \in Workers |-> IF w[1] = r /\ w[2] \in Sc.base THEN "queued" ELSE wpc[w]]
    /\ rpc' = [rpc EXCEPT ![r] = "base_pool"]
    /\ UNCHANGED <<probe, scenario, now, db_lock, news, next_id, newsletters, newsletter_stats,
                   run, loc, hist>>

\* the results the as_completed loop has gathered when every feed of the pool is done
Gathered(r, pool) == UNION {loc[<<r, f>>].results : f \in pool}

\* the base pool is left when every base feed is done, its results gathered by the
\* as_completed loop; then ex.submit(parse_feed, build_google_rss(q), "google")
SubmitGoogleFeeds(r) ==
    /\ rpc[r] = "base_pool"
    /\ \A f \in Sc.base : wpc[<<r, f>>] = "done"
    /\ run' = [run EXCEPT ![r].all_results = @ \cup Gathered(r, Sc.base)]
    /\ wpc' = [w \in Workers |-> IF w[1] = r /\ w[2] \in Sc.queries THEN "queued" ELSE wpc[w]]
    /\ rpc' = [rpc EXCEPT ![r] = "google_pool"]
    /\ UNCHANGED <<probe, scenario, now, db_lock, news, next_id, newsletters, newsletter_stats,
                   loc, hist>>

\* variant: the important results are counted whatever their topic
ComputeStatsImportantOfAnyTopic(all_results) ==
    [t \in {x.topic : x \in all_results} |->
        [total |-> Cardinality({x \in all_results : x.topic = t}),
         important |-> Cardinality({x \in all_results : x.important # 0})]]

\* stats: per topic, the number of results and of important results
ComputeStats(all_results) ==
    [t \in {x.topic : x \in all_results} |->
        [total |-> Cardinality({x \in all_results : x.topic = t}),
         important |-> Cardinality({x \in all_results : x.topic = t /\ x.important # 0})]]

\* variant: the Google pool is left as soon as one of its feeds has returned
AggregateStatsNotWaiting(r) ==
    /\ rpc[r] = "google_pool"
    /\ Sc.queries = {} \/ \E f \in Sc.queries : wpc[<<r, f>>] = "done"
    /\ LET all_results == run[r].all_results \cup Gathered(r, Sc.queries)
       IN  run' = [run EXCEPT ![r].all_results = all_results,
                              ![r].stats = ComputeStats(all_results)]
    /\ rpc' = [rpc EXCEPT ![r] = "prune_lock"]
    /\ UNCHANGED <<probe, scenario, now, db_lock, news, next_id, newsletters, newsletter_stats,
                   wpc, loc, hist>>

\* the Google pool is left when every query feed is done; then the stats
AggregateStats(r) ==
    /\ rpc[r] = "google_pool"
    /\ \A f \in Sc.queries : wpc[<<r, f>>] = "done"
    /\ LET all_results == run[r].all_results \cup Gathered(r, Sc.queries)
       IN  run' = [run EXCEPT ![r].all_results = all_results,
                              ![r].stats = ComputeStats(all_results)]
    /\ rpc' = [rpc EXCEPT ![r] = "prune_lock"]
    /\ UNCHANGED <<probe, scenario, now, db_lock, news, next_id, newsletters, newsletter_stats,
                   wpc, loc, hist>>

\* `with db_lock:` entered by the run's thread
AcquireDbLockToPrune(r) ==
    /\ rpc[r] = "prune_lock"
    /\ db_lock = NoOne
    /\ db_lock' = <<r, Main>>
    /\ rpc' = [rpc EXCEPT ![r] = "prune"]
    /\ UNCHANGED <<probe, scenario, now, news, next_id, newsletters, newsletter_stats,
                   run, wpc, loc, hist>>

\* variant: ORDER BY published ASC LIMIT n, which keeps the oldest rows
KeepSetsOldest(rows, n) ==
    {K \in SUBSET rows :
        /\ Cardinality(K) = Min(n, Cardinality(rows))
        /\ \A k \in K, d \in rows \ K : k.published <= d.published}

\* what ORDER BY published DESC LIMIT n may keep of rows (ties in any order)
KeepSets(rows, n) ==
    {K \in SUBSET rows :
        /\ Cardinality(K) = Min(n, Cardinality(rows))
        /\ \A k \in K, d \in rows \ K : k.published >= d.published}

\* variant: the DELETE is run for every configured topic
PruneResultsEveryTopic(rows, topics) ==
    {N \in SUBSET rows :
        \A t \in TopicIds :
            {x \in N : x.topic = t} \in KeepSets({x \in rows : x.topic = t}, MAX_NEWS_PER_TOPIC)}

\* DELETE FROM news WHERE topic = ? AND id NOT IN (...), for each topic: the possible results
PruneResults(rows, topics) ==
    {N \in SUBSET rows :
        /\ \A x \in rows : x.topic \notin topics => x \in N
        /\ \A t \in topics :
              {x \in N : x.topic = t} \in KeepSets({x \in rows : x.topic = t}, MAX_NEWS_PER_TOPIC)}

\* the pruning block; an exception leaves the `with` block and the run
PruneTopics(r) ==
    /\ rpc[r] = "prune"
    /\ db_lock' = NoOne
    /\ \E ok \in BOOLEAN :
        IF ok
        THEN /\ news' \in PruneResults(news, DOMAIN run[r].stats)
             /\ rpc' = [rpc EXCEPT ![r] = "update_stats"]
        ELSE /\ news' = news
             /\ rpc' = [rpc EXCEPT ![r] = "crashed"]
    /\ UNCHANGED <<probe, scenario, now, next_id, newsletters, newsletter_stats, run, wpc, loc, hist>>

\* update_newsletter_stats(newsletter_id, stats) (no lock is taken), then return stats
UpdateNewsletterStats(r) ==
    /\ rpc[r] = "update_stats"
    /\ \E ok \in BOOLEAN :
        IF ok
        THEN /\ newsletter_stats' = InsertStats(newsletter_stats, run[r].newsletter_id,
                                                run[r].stats)
             /\ rpc' = [rpc EXCEPT ![r] = "returned"]
        ELSE /\ newsletter_stats' = newsletter_stats
             /\ rpc' = [rpc EXCEPT ![r] = "crashed"]
    /\ UNCHANGED <<probe, scenario, now, db_lock, news, next_id, newsletters, run, wpc, loc, hist>>

WorkerStep(w) ==
    \/ StartFeed(w)
    \/ FetchFeed(w)
    \/ ValidateEntry(w)
    \/ AcquireDbLock(w)
    \/ FingerprintLookup(w)
    \/ FirstDupCheck(w)
    \/ ExtractContent(w)
    \/ ClassifyEntry(w)
    \/ SummarizeEntry(w)
    \/ RecheckDuplicates(w)
    \/ InsertEntry(w)

RunStep(r) ==
    \/ StartScheduledRun(r)
    \/ CreateNewsletterInsert(r)
    \/ CreateNewsletterSelect(r)
    \/ SubmitBaseFeeds(r)
    \/ SubmitGoogleFeeds(r)
    \/ AggregateStats(r)
    \/ AcquireDbLockToPrune(r)
    \/ PruneTopics(r)
    \/ UpdateNewsletterStats(r)

Next ==
    \/ Tick
    \/ \E w \in Workers : WorkerStep(w)
    \/ \E r \in Runs : RunStep(r)

Spec == Init /\ [][Next]_vars

(***************************************************************************)
(* The same program with its scheduling: a thread that can take a step     *)
(* eventually takes it (every network call returns or times out, a pool    *)
(* thread runs its task, a released lock is handed to a waiting thread).   *)
(***************************************************************************)
\* the scenarios the scheduled program is run in
LiveScenarios == {"contend", "rerun", "pools"}

InitLive == Init /\ scenario \in LiveScenarios

\* a step of some thread
ThreadStep == (\E w \in Workers : WorkerStep(w)) \/ (\E r \in Runs : RunStep(r))

\* while some thread is not blocked (it is not waiting for a pool thread, for its
\* pool, for the earlier run or for the lock), a thread runs
Fairness == WF_vars(ThreadStep)

SpecLive == InitLive /\ [][Next]_vars /\ Fairness

(***************************************************************************)
(* detect_topic on its own: one call with a title and a content made of    *)
(* the words below, and the replies of the LLM endpoint to its calls.      *)
(***************************************************************************)
TitleWords == <<  <<"L","a","w">>, <<"v","o","t","e">>, <<"t","a","x">>,
                  <<"t","a","x","i">>, <<"c","u","p">>  >>
ContentWords == <<  <<"m","p">>, <<"n","b","r","b">>, <<"n","h","l">>, <<"t","a","x">>,
                    <<"a","d">>, <<"u","r","a","l">>, <<"b","y">>, <<"s","k","i">>  >>

\* the words of `words` whose index is in picks, from the i-th on, joined by spaces
RECURSIVE JoinWords(_, _, _)
JoinWords(words, picks, i) ==
    IF i > Len(words) THEN <<>>
    ELSE LET rest == JoinWords(words, picks, i + 1)
         IN  IF i \notin picks THEN rest
             ELSE IF rest = <<>> THEN words[i]
             ELSE words[i] \o <<" ">> \o rest

ProbeTitles == {JoinWords(TitleWords, S, 1) : S \in SUBSET (1..Len(TitleWords))}
ProbeContents == {JoinWords(ContentWords, S, 1) : S \in SUBSET (1..Len(ContentWords))}

InitDetect ==
    /\ scenario = "one_run"
    /\ now = 0
    /\ db_lock = NoOne
    /\ news = {}
    /\ next_id = 1
    /\ newsletters = {}
    /\ newsletter_stats = <<>>
    /\ rpc = [r \in Runs |-> "off"]
    /\ run = [r \in Runs |-> EmptyRun]
    /\ wpc = [w \in Workers |-> "off"]
    /\ loc = [w \in Workers |-> EmptyLocals]
    /\ hist = [w \in Workers |-> [fetch |-> "none", trail |-> <<>>, entries |-> <<>>]]
    /\ probe \in {[NoProbe EXCEPT !.stage = "called", !.title = t, !.content = c] :
                     t \in ProbeTitles, c \in ProbeContents}

\* detect_topic up to the sorted candidates
ScoreProbe ==
    /\ probe.stage = "called"
    /\ LET text == Lower(probe.title \o <<" ">> \o probe.content)
           scoring == detect_topic_scoring(probe.title, probe.content)
       IN  probe' = [probe EXCEPT
               !.stage = "scored",
               !.region_skip = scoring.region_skip,
               !.keyword = [i \in 1..Len(TOPICS) |->
                               KeywordScore(TOPICS[i], Lower(probe.title), text)],
               !.scores = TopicScores(probe.title, probe.content),
               !.candidates = scoring.candidates]
    /\ UNCHANGED <<scenario, now, db_lock, news, next_id, newsletters, newsletter_stats,
                   rpc, run, wpc, loc, hist>>

\* detect_topic from the candidates to its return, with the replies llm to its calls
DecideProbe ==
    /\ probe.stage = "scored"
    /\ \E llm \in [1..2 -> ValidateReplies] :
          LET d == detect_topic_decision([region_skip |-> probe.region_skip,
                                          candidates |-> probe.candidates], llm)
          IN  probe' = [probe EXCEPT !.stage = "returned", !.llm = llm,
                                     !.topic = d.topic, !.calls = d.calls,
                                     !.asked = d.asked]
    /\ UNCHANGED <<scenario, now, db_lock, news, next_id, newsletters, newsletter_stats,
                   rpc, run, wpc, loc, hist>>

NextDetect == ScoreProbe \/ DecideProbe

SpecDetect == InitDetect /\ [][NextDetect]_vars

(***************************************************************************)
(* check_for_duplicates on its own: one call on a table news that holds    *)
(* some of the rows below, at time now = 0.                                *)
(***************************************************************************)
TitleTaxiAb == <<"T","a","x","i","-","a","b">>
LinkA1Plain == <<"https://","a",".","b","y","/","n1">>
LinkA1Frag == <<"https://","a",".","b","y","/","n1","#","f">>
LinkC9 == <<"https://","c",".","b","y","/","n9">>
LinkB6 == <<"https://","b",".","b","y","/","n6">>
LinkUnder == <<"https://","c",".","b","y","/","a","_","b">>
LinkDash == <<"https://","c",".","b","y","/","a","-","b">>
TitleDigits == <<"1","!">>
TitleYear == <<"2","0","2","6">>

\* a row of table news as the INSERT of process_news_entry writes it; a legacy row
\* was stored before the column normalized_title existed
StoredRow(id, title, link, topic, published, legacy) ==
    [id |-> id,
     title |-> Take(title, 500),
     summary |-> Take(title, 1000),
     full_text |-> <<>>,
     link |-> link,
     topic |-> topic,
     published |-> published,
     fingerprint |-> fingerprint(title, link),
     important |-> 0,
     source |-> "rss",
     fetched_at |-> published,
     real_source |-> Lower(Netloc(link)),
     normalized_title |-> IF legacy THEN <<>> ELSE Take(normalize_title(title), 200)]

RowTaxi == StoredRow(1, TitleTaxi, LinkB3, "economy", -1, FALSE)
RowTaxiOld == StoredRow(2, TitleTaxi, LinkA2, "politics", -(LOOKBACK_HOURS + 1), FALSE)
RowTaxiAbLegacy == StoredRow(3, TitleTaxiAb, LinkB4, "sport", -LOOKBACK_HOURS, TRUE)
RowVoteA1 == StoredRow(4, TitleVote, LinkA1Plain, "politics", -2, FALSE)
RowLawA1Old == StoredRow(5, TitleLaw, LinkA1Frag, "politics", -(LOOKBACK_HOURS + 1), FALSE)
RowYear == StoredRow(6, TitleYear, LinkB6, "economy", -3, FALSE)
RowDash == StoredRow(7, TitleVote, LinkDash, "sport", -3, FALSE)

DupRows == {RowTaxi, RowTaxiOld, RowTaxiAbLegacy, RowVoteA1, RowLawA1Old, RowYear, RowDash}
DupTitles == {TitleTax1, TitleTaxi, TitleTaxiAb, TitleLaw, TitleDigits}
DupLinks == {LinkA1u1, LinkA1u2, LinkA1Frag, LinkC9, LinkUnder}

InitDup ==
    /\ scenario = "one_run"
    /\ now = 0
    /\ db_lock = NoOne
    /\ news \in SUBSET DupRows
    /\ next_id = Cardinality(DupRows) + 1
    /\ newsletters = {}
    /\ newsletter_stats = <<>>
    /\ rpc = [r \in Runs |-> "off"]
    /\ run = [r \in Runs |-> EmptyRun]
    /\ wpc = [w \in Workers |-> "off"]
    /\ loc = [w \in Workers |-> EmptyLocals]
    /\ hist = [w \in Workers |-> [fetch |-> "none", trail |-> <<>>, entries |-> <<>>]]
    /\ probe \in [stage : {"called"}, title : DupTitles, topic : TopicIds \cup {NoTopic},
                  link : DupLinks, result : {FALSE}]

\* the call check_for_duplicates(title, topic, link, c)
CheckDuplicatesProbe ==
    /\ probe.stage = "called"
    /\ probe' = [probe EXCEPT
           !.stage = "returned",
           !.result = check_for_duplicates(probe.title, probe.topic, probe.link, news, now)]
    /\ UNCHANGED <<scenario, now, db_lock, news, next_id, newsletters, newsletter_stats,
                   rpc, run, wpc, loc, hist>>

NextDup == CheckDuplicatesProbe

SpecDup == InitDup /\ [][NextDup]_vars

(***************************************************************************)
(* normalize_title and fingerprint on their own: a title of up to          *)
(* MaxTitleLen characters is normalized, and the keys of two articles are  *)
(* computed.                                                               *)
(***************************************************************************)
MaxTitleLen == 5
TitleAlphabet == {"A", "1", "!", " ", "\t", "_"}
ShortTitles == UNION {[1..n -> TitleAlphabet] : n \in 0..MaxTitleLen}

\* titles of 101 characters that agree on the first 100, and one that does not
TitleA101 == [i \in 1..(FingerprintTitleLen + 1) |-> "a"]
TitleA100b == [i \in 1..(FingerprintTitleLen + 1) |->
                  IF i <= FingerprintTitleLen THEN "a" ELSE "b"]
TitleBA100 == [i \in 1..(FingerprintTitleLen + 1) |-> IF i = 1 THEN "b" ELSE "a"]

PairTitles == {<<>>, <<"a","b">>, <<"A","B">>, <<"a","!","b">>, <<"a","1","b">>,
               <<"a","_","b">>, <<"a"," ","b">>, <<"b","a">>,
               TitleA101, TitleA100b, TitleBA100}
PairLinks == {LinkA1u1, LinkA1u2, LinkA2, LinkB3}

TitleProbe(t1, l1, t2, l2) ==
    [stage |-> "called", title |-> t1, link |-> l1, other_title |-> t2, other_link |-> l2,
     norm |-> <<>>, renorm |-> <<>>, fp |-> NoFingerprint, other_fp |-> NoFingerprint]

InitTitle ==
    /\ scenario = "one_run"
    /\ now = 0
    /\ db_lock = NoOne
    /\ news = {}
    /\ next_id = 1
    /\ newsletters = {}
    /\ newsletter_stats = <<>>
    /\ rpc = [r \in Runs |-> "off"]
    /\ run = [r \in Runs |-> EmptyRun]
    /\ wpc = [w \in Workers |-> "off"]
    /\ loc = [w \in Workers |-> EmptyLocals]
    /\ hist = [w \in Workers |-> [fetch |-> "none", trail |-> <<>>, entries |-> <<>>]]
    /\ probe \in {TitleProbe(t, LinkB3, t, LinkB3) : t \in ShortTitles}
                 \cup {TitleProbe(t1, l1, t2, l2) :
                          t1 \in PairTitles, l1 \in PairLinks,
                          t2 \in PairTitles, l2 \in PairLinks}

\* normalize_title(title), and normalize_title of its result
NormalizeProbe ==
    /\ probe.stage = "called"
    /\ probe' = [probe EXCEPT
           !.stage = "normalized",
           !.norm = normalize_title(probe.title),
           !.renorm = normalize_title(normalize_title(probe.title))]
    /\ UNCHANGED <<scenario, now, db_lock, news, next_id, newsletters, newsletter_stats,
                   rpc, run, wpc, loc, hist>>

\* fingerprint(title, link) of the two articles
FingerprintProbe ==
    /\ probe.stage = "normalized"
    /\ probe' = [probe EXCEPT
           !.stage = "keyed",
           !.fp = fingerprint(probe.title, probe.link),
           !.other_fp = fingerprint(probe.other_title, probe.other_link)]
    /\ UNCHANGED <<scenario, now, db_lock, news, next_id, newsletters, newsletter_stats,
                   rpc, run, wpc, loc, hist>>

NextTitle == NormalizeProbe \/ FingerprintProbe

SpecTitle == InitTitle /\ [][NextTitle]_vars

(***************************************************************************)
(* analyze_news on its own: one call, with the answers of the LLM endpoint *)
(* to its request and to the request of _force_facts.                      *)
(***************************************************************************)
\* an answer: the request failed ("error"), the response holds no {...} ("nojson"),
\* json.loads fails on it ("malformed"), or it is a JSON object with these values
AnalyzeReplies ==
    [kind : {"error", "nojson", "malformed"}, summary : {<<>>}, important : {"0"}]
    \cup [kind : {"json"},
          summary : {<<>>, <<"s">>, MidSummary, LongSummary, Take(TitleA101, 100)},
          important : {"0", "1", "true", "True"}]

AnalyzeTitles == {TitleLaw, TitleA101}

InitAnalyze ==
    /\ scenario = "one_run"
    /\ now = 0
    /\ db_lock = NoOne
    /\ news = {}
    /\ next_id = 1
    /\ newsletters = {}
    /\ newsletter_stats = <<>>
    /\ rpc = [r \in Runs |-> "off"]
    /\ run = [r \in Runs |-> EmptyRun]
    /\ wpc = [w \in Workers |-> "off"]
    /\ loc = [w \in Workers |-> EmptyLocals]
    /\ hist = [w \in Workers |-> [fetch |-> "none", trail |-> <<>>, entries |-> <<>>]]
    /\ probe \in [stage : {"called"}, title : AnalyzeTitles,
                  reply1 : AnalyzeReplies, reply2 : AnalyzeReplies,
                  result : {TitleDefault(<<>>)}, forced : {0}]

\* the call analyze_news(title, content)
AnalyzeProbe ==
    /\ probe.stage = "called"
    /\ LET a == analyze_news_calls(probe.title, probe.reply1, probe.reply2)
       IN  probe' = [probe EXCEPT !.stage = "returned",
                                  !.result = a.result, !.forced = a.forced]
    /\ UNCHANGED <<scenario, now, db_lock, news, next_id, newsletters, newsletter_stats,
                   rpc, run, wpc, loc, hist>>

NextAnalyze == AnalyzeProbe

SpecAnalyze == InitAnalyze /\ [][NextAnalyze]_vars

(***************************************************************************)
(* Vocabulary of the properties.                                           *)
(***************************************************************************)
Last(q) == q[Len(q)]

\* the outcomes of the entries worker w has finished, in feed order
Outcomes(w) == hist[w].entries

\* the fingerprint process_news_entry computes for the i-th entry of w's feed
EntryFp(w, i) ==
    LET e == EntriesOf(w)[i]
    IN  fingerprint(Strip(e.title), BeforeFirst(e.link, "?"))

\* how an entry ends that was classified into a topic or found to be a duplicate
DedupOutcomes == {"DUP_SKIP", "RACE_DUP_SKIP", "INTEGRITY_ERROR", "STORED"}

\* the i-th entry of w was fingerprinted and was stored or rejected as a duplicate
Processed(w, i) ==
    /\ i <= Len(Outcomes(w))
    /\ Outcomes(w)[i] \in DedupOutcomes

\* no feed worker is queued or running
Quiet == \A w \in Workers : wpc[w] \in {"off", "done"}

\* worker w ends an entry in this step
EndsEntry(w) == Len(hist'[w].entries) = Len(hist[w].entries) + 1

\* positions whose next step is a store operation / a network call
WorkerStorePcs == {"fp_read", "dup_read", "recheck", "insert"}
RunStorePcs == {"create_insert", "create_select", "prune", "update_stats"}
NetworkPcs == {"fetch", "extract", "classify", "summarize"}

\* thread t executes a store operation in this step
StoreStep(t) ==
    IF t[2] = Main
    THEN rpc[t[1]] \in RunStorePcs /\ rpc'[t[1]] # rpc[t[1]]
    ELSE wpc[t] \in WorkerStorePcs /\ wpc'[t] # wpc[t]

(***************************************************************************)
(* C1.  Fingerprints are unique in the store.                              *)
(***************************************************************************)
\* C1 (as amended): in every reachable state no two rows of table news have the
\* same fingerprint: of the entries with one fingerprint at most one is stored.
C1_UniqueFingerprint ==
    \A r1 \in news, r2 \in news : r1.fingerprint = r2.fingerprint => r1 = r2

\* two workers have processed entries with one fingerprint: one is stored, the
\* other's INSERT was refused by the UNIQUE constraint
C1_Witness ==
    \E w1 \in Workers, w2 \in Workers :
        /\ w1 # w2
        /\ Outcomes(w1) # <<>> /\ Outcomes(w1)[1] = "STORED"
        /\ Outcomes(w2) # <<>> /\ Outcomes(w2)[1] = "INTEGRITY_ERROR"
        /\ EntryFp(w1, 1) = EntryFp(w2, 1)
        /\ \E r \in news : r.fingerprint = EntryFp(w1, 1)

\* C1 as stated: when the workers have finished, exactly one row carries the
\* fingerprint that two workers' entries share.
C1_ExactlyOneStored ==
    Quiet =>
        \A w1 \in Workers, w2 \in Workers :
            \A i \in 1..Len(Outcomes(w1)), j \in 1..Len(Outcomes(w2)) :
                (w1 # w2 /\ Processed(w1, i) /\ Processed(w2, j)
                   /\ EntryFp(w1, i) = EntryFp(w2, j))
                => Cardinality({r \in news : r.fingerprint = EntryFp(w1, i)}) = 1

(***************************************************************************)
(* C2.  The locked re-check and the INSERT are one critical section.       *)
(***************************************************************************)
\* C2: while a worker is between its re-check (no duplicate) and its INSERT it holds
\* db_lock, and no other thread executes a store operation of a locked section
\* or changes table news.
C2_RecheckInsertAtomic ==
    [][\A w \in Workers :
          wpc[w] = "insert" =>
              /\ db_lock = w
              /\ \A v \in Workers \ {w} : ~StoreStep(v)
              /\ \A r \in Runs : ~(rpc[r] = "prune" /\ rpc'[r] # "prune")
              /\ (wpc'[w] = "insert" => news' = news)]_vars

\* a worker is between re-check and INSERT while another one waits for the lock
C2_Witness ==
    \E w \in Workers, v \in Workers :
        /\ w # v
        /\ wpc[w] = "insert"
        /\ wpc[v] \in {"fp_lock", "dup_lock", "ins_lock"}

(***************************************************************************)
(* C3.  Similar titles processed concurrently.                             *)
(***************************************************************************)
\* the title the duplicate check compares for a stored row
RowNorm(r) == IF r.normalized_title # <<>> THEN r.normalized_title
              ELSE normalize_title(r.title)

\* C3 as stated: of two concurrently processed entries whose normalised titles are
\* similar above the threshold at most one is stored: no two rows have similar
\* titles while the earlier one was inside the look-back when the later one was
\* inserted.
C3_AtMostOneOfSimilarTitles ==
    \A r1 \in news, r2 \in news :
        (r1.id < r2.id /\ r1.published >= r2.fetched_at - LOOKBACK_HOURS)
        => ~is_similar_news(RowNorm(r2), RowNorm(r1))

(***************************************************************************)
(* C4.  One link processed concurrently.                                   *)
(***************************************************************************)
\* C4 (as amended): two rows whose links agree after the query string is stripped
\* coexist only if the earlier row's publish time had left the 24-hour look-back
\* when the later row was inserted, whatever their titles and topics.
C4_SameLinkWithinLookback ==
    \A r1 \in news, r2 \in news :
        (r1.id < r2.id /\ LinkLike(r1.link, CleanLink(r2.link)))
        => r1.published < r2.fetched_at - LOOKBACK_HOURS

\* two runs processed one link under different titles: the first is stored under
\* topic economy, the second passed the first check, was classified (its title
\* belongs to politics) and was rejected by the re-check
C4_Witness ==
    /\ scenario = "two_runs_link"
    /\ \E r \in news : r.link = BeforeFirst(LinkA1u1, "?") /\ r.topic = "economy"
    /\ Outcomes(<<"r2", "b1">>) = <<"RACE_DUP_SKIP">>

\* C4 as stated: when both workers have finished two entries with one link, both
\* inside the age window and both classified or found duplicate, exactly one of
\* them is stored and the other is rejected as a duplicate.
C4_ExactlyOneOfSameLink ==
    LET w1 == <<"r1", "b1">>
        w2 == <<"r2", "b1">>
    IN  (/\ scenario = "two_runs_link"
         /\ wpc[w1] = "done" /\ wpc[w2] = "done"
         /\ Processed(w1, 1) /\ Processed(w2, 1))
        => \/ Outcomes(w1)[1] = "STORED" /\ Outcomes(w2)[1] \in {"DUP_SKIP", "RACE_DUP_SKIP"}
           \/ Outcomes(w2)[1] = "STORED" /\ Outcomes(w1)[1] \in {"DUP_SKIP", "RACE_DUP_SKIP"}

(***************************************************************************)
(* C5.  Store operations and db_lock.                                      *)
(***************************************************************************)
\* C5 as stated: every store operation of a run or of a feed worker is executed
\* while that thread holds db_lock.
C5_StoreOpsUnderLock ==
    [][\A t \in Threads : StoreStep(t) => db_lock = t]_vars

(***************************************************************************)
(* C6.  No network call under db_lock.                                     *)
(***************************************************************************)
\* C6: a worker whose next step is a network call (feed fetch, content extraction,
\* classification, summary) does not hold db_lock, and whoever holds the lock is
\* at a store operation.
C6_NoNetworkUnderLock ==
    /\ \A w \in Workers : wpc[w] \in NetworkPcs => db_lock # w
    /\ \A w \in Workers : db_lock = w => wpc[w] \in WorkerStorePcs
    /\ \A r \in Runs : db_lock = <<r, Main>> => rpc[r] = "prune"

\* one worker is in a network call while another one is inside a locked section
C6_Witness ==
    \E w \in Workers, v \in Workers :
        /\ wpc[w] \in {"extract", "classify", "summarize"}
        /\ db_lock = v
        /\ wpc[v] \in WorkerStorePcs

(***************************************************************************)
(* C7.  Failures inside a run.                                             *)
(***************************************************************************)
\* C7 as stated: no failure makes a run end abnormally: collect_and_save_news
\* never leaves with an exception.
C7_RunNeverRaises == \A r \in Runs : rpc[r] # "crashed"

(***************************************************************************)
(* C8.  One entry's or one feed's failure is contained.                    *)
(***************************************************************************)
StoredCount(w) == Cardinality({i \in 1..Len(Outcomes(w)) : Outcomes(w)[i] = "STORED"})

\* C8: a feed whose fetch failed returns no result and no entry of it is processed;
\* a worker that has finished a fetched feed has processed every entry of it,
\* whatever entries ended by an exception, and returns one result per stored
\* entry; the run's result is the union of what its feed workers returned.
C8_FailuresContained ==
    /\ \A w \in Workers :
          /\ hist[w].fetch = "failed" =>
                wpc[w] = "done" /\ loc[w].results = {} /\ Outcomes(w) = <<>>
          /\ (wpc[w] = "done" /\ hist[w].fetch = "ok") =>
                Len(Outcomes(w)) = Len(EntriesOf(w))
          /\ Cardinality(loc[w].results) = StoredCount(w)
    /\ \A r \in Runs :
          rpc[r] \in {"prune_lock", "prune", "update_stats", "returned"} =>
              run[r].all_results = UNION {loc[<<r, f>>].results : f \in FeedNames}

\* a run has returned: in one feed the first entry ended by an exception and the
\* second was stored, another feed's fetch failed, and the stored entry is in the
\* run's result
C8_Witness ==
    \E r \in Runs, f \in FeedNames, g \in FeedNames :
        /\ rpc[r] = "returned"
        /\ Outcomes(<<r, f>>) = <<"ERROR", "STORED">>
        /\ hist[<<r, g>>].fetch = "failed"
        /\ loc[<<r, f>>].results # {}
        /\ loc[<<r, f>>].results \subseteq run[r].all_results

(***************************************************************************)
(* C9.  An INSERT refused by the UNIQUE constraint.                        *)
(***************************************************************************)
\* C9: when a worker executes its INSERT while a row with its fingerprint is in the
\* store, table news is unchanged, the worker's results are unchanged, db_lock is
\* free afterwards, the entry ends without having been stored, and the worker is
\* at its next entry (or has returned, after its last entry).
C9_RefusedInsertAddsNothing ==
    [][\A w \in Workers :
          (/\ wpc[w] = "insert" /\ wpc'[w] # "insert"
           /\ \E r \in news : r.fingerprint = loc[w].fp)
          => /\ news' = news
             /\ loc'[w].results = loc[w].results
             /\ db_lock' = NoOne
             /\ EndsEntry(w)
             /\ Last(hist'[w].entries) \in {"INTEGRITY_ERROR", "ERROR"}
             /\ IF loc[w].idx < Len(EntriesOf(w))
                THEN wpc'[w] = "entry" /\ loc'[w].idx = loc[w].idx + 1
                ELSE wpc'[w] = "done"]_vars

\* a worker's INSERT was refused, it went on to the next entry of its feed and has
\* returned no result, while the row of the other run is in the store
C9_Witness ==
    \E w \in Workers :
        /\ Len(Outcomes(w)) = 2
        /\ Outcomes(w)[1] = "INTEGRITY_ERROR"
        /\ loc[w].results = {}
        /\ \E r \in news : r.fingerprint = EntryFp(w, 1)

(***************************************************************************)
(* C10.  The per-article state machine.                                    *)
(***************************************************************************)
FullTrail == <<"FINGERPRINTED", "FP_MISS", "DEDUP1_MISS", "CONTENT_EXTRACTED",
               "CLASSIFIED", "SUMMARIZED", "RECHECK_MISS">>

\* C10: the stages of an entry are passed in the order fingerprint, fingerprint miss,
\* first duplicate check miss, content extraction, classification, summary,
\* re-check miss; an entry ends in STORED only after all of them, and an entry
\* that ends in DUP_SKIP has passed none of extraction, classification, summary.
C10_ArticleStateMachine ==
    [][\A w \in Workers :
          /\ hist[w].trail = Take(FullTrail, Len(hist[w].trail))
          /\ EndsEntry(w) =>
                LET o == Last(hist'[w].entries)
                    tr == hist[w].trail
                IN  /\ o = "STORED" => tr = FullTrail
                    /\ o = "INTEGRITY_ERROR" => tr = FullTrail
                    /\ o = "RACE_DUP_SKIP" => tr = Take(FullTrail, 6)
                    /\ o = "TOPIC_NONE_SKIP" => tr = Take(FullTrail, 4)
                    /\ o = "DUP_SKIP" => tr \in {Take(FullTrail, 1), Take(FullTrail, 2)}]_vars

\* in one feed the first entry was stored and the second, with the same link, was
\* skipped at the first duplicate check
C10_Witness ==
    \E w \in Workers : Outcomes(w) = <<"STORED", "DUP_SKIP">>

(***************************************************************************)
(* C11.  Stored articles have a resolved topic.                            *)
(***************************************************************************)
\* C11: every row of table news has a topic that is one of the configured topic
\* identifiers, a worker past classification carries such a topic, the row a
\* worker inserts has the topic detect_topic returned for it, and an entry whose
\* classification returns none ends there without any change of the store.
C11_StoredTopicResolved ==
    [][/\ \A r \in news' : r.topic \in TopicIds
       /\ \A w \in Workers :
             /\ wpc[w] \in {"summarize", "ins_lock", "recheck", "insert"}
                   => loc[w].topic \in TopicIds
             /\ (wpc[w] = "insert" /\ news' # news)
                   => \A r \in news' \ news : r.topic = loc[w].topic
             /\ (EndsEntry(w) /\ Last(hist'[w].entries) = "TOPIC_NONE_SKIP")
                   => /\ news' = news
                      /\ loc'[w].results = loc[w].results
                      /\ hist[w].trail = Take(FullTrail, 4)]_vars

\* one entry was stored (under a configured topic) and another one of the same
\* feed got no topic and was skipped
C11_Witness ==
    \E w \in Workers :
        /\ \E i \in 1..Len(Outcomes(w)) : Outcomes(w)[i] = "TOPIC_NONE_SKIP"
        /\ \E i \in 1..Len(Outcomes(w)) : Outcomes(w)[i] = "STORED"
        /\ \E r \in news : r.topic \in TopicIds

(***************************************************************************)
(* C12.  The age of an article when it is inserted.                        *)
(***************************************************************************)
\* C12 as stated: every row was, at the time of its INSERT (fetched_at), published
\* no longer than MAX_NEWS_AGE_HOURS before.
C12_PublishedWithinAgeAtInsert ==
    \A r \in news : r.published >= r.fetched_at - MAX_NEWS_AGE_HOURS

(***************************************************************************)
(* C13.  Entries refused before the fingerprint.                           *)
(***************************************************************************)
\* the time the feed metadata give for entry e (published first, then updated)
FeedTime(e) == IF e.published_parsed # <<>> THEN e.published_parsed[1]
               ELSE e.updated_parsed[1]

\* entry e has an empty title or link, a blacklisted link or title, no time in the
\* feed metadata, or a time older than the age window at time t
Refused(e, t) ==
    \/ Strip(e.title) = <<>>
    \/ e.link = <<>>
    \/ is_blacklisted(BeforeFirst(e.link, "?"), Strip(e.title))
    \/ e.published_parsed = <<>> /\ e.updated_parsed = <<>>
    \/ FeedTime(e) < t - MAX_NEWS_AGE_HOURS

SkipOutcomes == {"SKIP_EMPTY", "SKIP_BLACKLIST", "SKIP_NO_DATE", "SKIP_OLD"}

\* the entries the feeds of the scenario return
AllEntries == UNION {Range(EntriesOf(w)) : w \in Workers}

\* C13: when a worker processes an entry with an empty title or link, a blacklisted
\* link or title, no feed timestamp or a timestamp older than the age window, the
\* entry ends in that one step as a skip: the store and the worker's results are
\* unchanged, db_lock is not taken (no store read), and no stage (fingerprint,
\* extraction, classification, summary) was passed; every stored row carries the
\* feed timestamp of an entry that has one.
C13_RefusedEntriesSkipped ==
    [][/\ \A w \in Workers :
             (/\ wpc[w] = "entry"
              /\ wpc'[w] # "entry" \/ loc'[w].idx # loc[w].idx
              /\ Refused(EntriesOf(w)[loc[w].idx], now))
             => /\ EndsEntry(w)
                /\ Last(hist'[w].entries) \in SkipOutcomes
                /\ hist[w].trail = <<>>
                /\ news' = news
                /\ db_lock' = db_lock
                /\ next_id' = next_id
                /\ loc'[w].results = loc[w].results
       /\ \A r \in news' :
             \E e \in AllEntries :
                 /\ e.published_parsed # <<>> \/ e.updated_parsed # <<>>
                 /\ r.title = Strip(e.title)
                 /\ r.published = FeedTime(e)]_vars

\* one feed's worker has skipped an entry with a blank title, one without link, one
\* with a blacklisted link, one with a blacklisted title, one without a date and
\* one that is too old, and has stored the entry after them
C13_Witness ==
    \E w \in Workers :
        /\ Len(Outcomes(w)) >= 7
        /\ SubSeq(Outcomes(w), 1, 7) = <<"SKIP_EMPTY", "SKIP_EMPTY", "SKIP_BLACKLIST",
                                         "SKIP_BLACKLIST", "SKIP_NO_DATE", "SKIP_OLD",
                                         "STORED">>
        /\ \E r \in news : r.title = TitleLaw

(***************************************************************************)
(* C14.  Retention pruning.                                                *)
(***************************************************************************)
RowsOf(rows, t) == {x \in rows : x.topic = t}

\* C14: the pruning step of a run leaves, for every topic of the run's stats, the
\* smaller of MAX_NEWS_PER_TOPIC and the number of rows the topic held, all of
\* them rows it held before, and every deleted row of the topic is at least as old
\* (published) as every retained one; rows of other topics are untouched.
C14_PruneKeepsMostRecent ==
    [][\A r \in Runs :
          (rpc[r] = "prune" /\ rpc'[r] = "update_stats")
          => /\ news' \subseteq news
             /\ \A x \in news \ news' : x.topic \in DOMAIN run[r].stats
             /\ \A t \in DOMAIN run[r].stats :
                   LET held == RowsOf(news, t)
                       kept == RowsOf(news', t)
                   IN  /\ Cardinality(kept) <= MAX_NEWS_PER_TOPIC
                       /\ Cardinality(kept) = Min(MAX_NEWS_PER_TOPIC, Cardinality(held))
                       /\ \A k \in kept, d \in held \ kept : d.published <= k.published]_vars

\* a run that stored two articles of one topic, published at different times, has
\* pruned: the newer one is retained, the older one is deleted
C14_Witness ==
    \E r \in Runs :
        /\ rpc[r] = "update_stats"
        /\ "politics" \in DOMAIN run[r].stats
        /\ run[r].stats["politics"].total = 2
        /\ \E k \in news : k.title = TitleLaw /\ k.published = -1
        /\ ~\E d \in news : d.title = TitleVote

(***************************************************************************)
(* C15.  create_newsletter, one record per calendar day.                   *)
(***************************************************************************)
\* create_newsletter has returned to run r
Created(r) == run[r].newsletter_id # 0

\* C15: table newsletters never holds two records for one date; every call of
\* create_newsletter that has returned, returned the id of the record of its date,
\* and calls of one day returned the same id.
C15_OneNewsletterPerDay ==
    /\ \A n1 \in newsletters, n2 \in newsletters : n1.date = n2.date => n1 = n2
    /\ \A r \in Runs :
          Created(r) => \E n \in newsletters :
                            n.date = run[r].today /\ n.id = run[r].newsletter_id
    /\ \A r1 \in Runs, r2 \in Runs :
          (Created(r1) /\ Created(r2) /\ run[r1].today = run[r2].today)
          => run[r1].newsletter_id = run[r2].newsletter_id

\* two runs have called create_newsletter on one day: one record, one id
C15_Witness ==
    /\ Created("r1") /\ Created("r2")
    /\ run["r1"].today = run["r2"].today
    /\ run["r1"].newsletter_id = run["r2"].newsletter_id
    /\ Cardinality(newsletters) = 1

(***************************************************************************)
(* C16.  Rows of newsletter_stats.                                         *)
(***************************************************************************)
\* C16 as stated: table newsletter_stats holds at most one row for every pair of a
\* newsletter id and a topic.
C16_OneStatsRowPerRunTopic ==
    \A i \in DOMAIN newsletter_stats, j \in DOMAIN newsletter_stats :
        (/\ newsletter_stats[i].newsletter_id = newsletter_stats[j].newsletter_id
         /\ newsletter_stats[i].topic = newsletter_stats[j].topic)
        => i = j

(***************************************************************************)
(* C17.  When detect_topic returns none, and what it returns otherwise.    *)
(***************************************************************************)
TopicIndex == 1..Len(TOPICS)

\* the text detect_topic scores for the observed call
ProbeText == Lower(probe.title \o <<" ">> \o probe.content)

\* topic i is ahead of topic j: a higher score, or the same score and declared earlier
Ahead(scores, i, j) == scores[i] > scores[j] \/ (scores[i] = scores[j] /\ i < j)

\* the place of topic i among the topics with a score of at least 2
Place(scores, i) ==
    1 + Cardinality({j \in TopicIndex : scores[j] >= 2 /\ Ahead(scores, j, i)})

\* neither an entity nor a keyword of any topic occurs in txt
NoMatch(txt) ==
    /\ \A e \in 1..Len(ENTITY_TOPIC) : ~Contains(ENTITY_TOPIC[e][1], txt)
    /\ \A i \in TopicIndex : \A k \in 1..Len(TopicKeywords(TOPICS[i])) :
          ~word_in_text(Lower(TopicKeywords(TOPICS[i])[k]), txt)

\* C17: detect_topic returns none exactly when the region gate rejects the text or
\* no topic has a score of at least 2 (so when no entity and no keyword matches);
\* otherwise, whatever the replies to its LLM calls are, it returns a topic with a
\* score of at least 2 that has at most one topic ahead of it.
C17_DetectTopicNoneExactly ==
    probe.stage = "returned" =>
        LET none == \/ STRICT_BELARUS_ONLY /\ is_wrong_region(ProbeText)
                    \/ \A i \in TopicIndex : probe.scores[i] < 2
        IN  /\ probe.topic = NoTopic <=> none
            /\ NoMatch(ProbeText) => probe.topic = NoTopic
            /\ ~none => \E i \in TopicIndex :
                            /\ probe.topic = TOPICS[i]
                            /\ probe.scores[i] >= 2
                            /\ Place(probe.scores, i) <= 2

\* three topics are candidates below the confidence threshold, the last declared
\* one first; the LLM confirmed neither of the two it was asked about, and the
\* first candidate is returned
C17_Witness ==
    /\ probe.stage = "returned"
    /\ Len(probe.candidates) = 3
    /\ probe.candidates[1][1] = "sport"
    /\ probe.llm = <<ReplyNo, ReplyNo>>
    /\ probe.topic = "sport"

(***************************************************************************)
(* C18.  High confidence, and the order of the LLM calls.                  *)
(***************************************************************************)
\* C18: with a highest score of at least HIGH_CONFIDENCE_THRESHOLD detect_topic
\* returns the earliest declared topic of that score and calls the LLM not at
\* all; with a highest candidate score below it, it makes one or two calls, the
\* k-th about the candidate at place k (score descending, ties as declared).
C18_ConfidenceAndCallOrder ==
    (/\ probe.stage = "returned"
     /\ ~probe.region_skip
     /\ \E i \in TopicIndex : probe.scores[i] >= 2)
    => LET top == CHOOSE i \in TopicIndex : \A j \in TopicIndex \ {i} :
                      Ahead(probe.scores, i, j)
       IN  IF probe.scores[top] >= HIGH_CONFIDENCE_THRESHOLD
           THEN probe.topic = TOPICS[top] /\ probe.calls = 0 /\ probe.asked = <<>>
           ELSE /\ probe.calls \in {1, 2}
                /\ Len(probe.asked) = probe.calls
                /\ \A k \in 1..Len(probe.asked) :
                      \E i \in TopicIndex :
                          /\ probe.asked[k] = TOPICS[i]
                          /\ probe.scores[i] >= 2
                          /\ Place(probe.scores, i) = k

\* two topics share the highest score, which is above the threshold: the earlier
\* declared one is returned without any LLM call
C18_Witness ==
    /\ probe.stage = "returned"
    /\ probe.scores[1] = probe.scores[2]
    /\ probe.scores[1] >= HIGH_CONFIDENCE_THRESHOLD
    /\ probe.scores[3] < probe.scores[1]
    /\ probe.topic = TOPICS[1]
    /\ probe.calls = 0

(***************************************************************************)
(* C19.  A failing LLM call in the tie-break.                              *)
(***************************************************************************)
\* C19 as stated: with two candidates below the threshold, when the LLM call for
\* the first fails and the LLM confirms the second, the second is returned.
C19_FailedCallMovesOn ==
    (/\ probe.stage = "returned"
     /\ ~probe.region_skip
     /\ Len(probe.candidates) >= 2
     /\ probe.candidates[1][2] < HIGH_CONFIDENCE_THRESHOLD
     /\ probe.llm[1] = ReplyError
     /\ probe.llm[2] = ReplyYes)
    => probe.topic = probe.candidates[2][1]

(***************************************************************************)
(* C20.  The keyword part of a topic's score.                              *)
(***************************************************************************)
\* word stands in txt at position i with no word character on either side
WholeWordAt(word, txt, i) ==
    /\ i + Len(word) - 1 <= Len(txt)
    /\ SubSeq(txt, i, i + Len(word) - 1) = word
    /\ i = 1 \/ ~IsWordChar(txt[i - 1])
    /\ i + Len(word) - 1 = Len(txt) \/ ~IsWordChar(txt[i + Len(word)])

WholeWordIn(word, txt) == \E i \in 1..Len(txt) : WholeWordAt(word, txt, i)

\* C20: a topic one of whose exclude terms occurs in the text gets nothing from
\* its keywords; otherwise every keyword adds exactly one of 2 (whole word of the
\* title), 1 (whole word of the text only) and 0, never 3; and a text that is one
\* entity string of topic A and nothing else scores A with 3 and the others with 0.
C20_KeywordContribution ==
    probe.stage # "called" =>
        /\ \A i \in TopicIndex :
              LET kws == TopicKeywords(TOPICS[i])
                  excl == TopicExclude(TOPICS[i])
                  in_title == {k \in 1..Len(kws) :
                                  WholeWordIn(Lower(kws[k]), Lower(probe.title))}
                  in_text == {k \in 1..Len(kws) : WholeWordIn(Lower(kws[k]), ProbeText)}
              IN  /\ (\E x \in 1..Len(excl) : Contains(excl[x], ProbeText))
                        => probe.keyword[i] = 0
                  /\ (\A x \in 1..Len(excl) : ~Contains(excl[x], ProbeText))
                        => probe.keyword[i] = 2 * Cardinality(in_title)
                                              + Cardinality(in_text \ in_title)
                  /\ probe.keyword[i] <= 2 * Len(kws)
        /\ \A e \in 1..Len(ENTITY_TOPIC) :
              (probe.title = <<>> /\ probe.content = ENTITY_TOPIC[e][1])
              => \A i \in TopicIndex :
                    probe.scores[i] = IF TOPICS[i] = ENTITY_TOPIC[e][2] THEN 3 ELSE 0

\* a keyword stands in the title and once more in the content, no exclude term
\* occurs, and the keyword has added 2
C20_Witness ==
    /\ probe.stage = "scored"
    /\ WholeWordIn(<<"t", "a", "x">>, Lower(probe.title))
    /\ WholeWordIn(<<"t", "a", "x">>, Lower(probe.content))
    /\ ~Contains(<<"a", "d">>, ProbeText)
    /\ probe.keyword[2] = 2

(***************************************************************************)
(* C21.  The penalty for negative terms.                                   *)
(***************************************************************************)
\* what the entity and keyword passes have given topic i in the observed call
BeforePenalty(i) ==
    3 * Cardinality({e \in 1..Len(ENTITY_TOPIC) :
                        ENTITY_TOPIC[e][2] = TOPICS[i]
                        /\ Contains(ENTITY_TOPIC[e][1], ProbeText)})
    + probe.keyword[i]

\* the negative terms that occur in the text of the observed call
NegativesPresent ==
    {n \in 1..Len(POLITICS_NEGATIVE) : Contains(POLITICS_NEGATIVE[n], ProbeText)}

\* C21: the score of politics is what the entity and keyword passes gave it less 2
\* for each negative term in the text, the score of every other topic is not
\* reduced, and politics is no candidate and is not returned when the penalty
\* takes it from at least 2 to below 2.
C21_PoliticsPenalty ==
    probe.stage # "called" =>
        /\ \A i \in TopicIndex :
              probe.scores[i] = BeforePenalty(i)
                                - (IF TOPICS[i] = "politics"
                                   THEN 2 * Cardinality(NegativesPresent) ELSE 0)
        /\ \A i \in TopicIndex :
              (/\ TOPICS[i] = "politics"
               /\ BeforePenalty(i) >= 2
               /\ probe.scores[i] < 2)
              => /\ \A c \in 1..Len(probe.candidates) : probe.candidates[c][1] # "politics"
                 /\ probe.topic # "politics"

\* both negative terms occur: politics had 5 and is left with 1, the other
\* candidate, which one of the terms is a keyword of, keeps its 2 and is returned
C21_Witness ==
    /\ probe.stage = "returned"
    /\ ~probe.region_skip
    /\ BeforePenalty(1) = 5
    /\ Cardinality(NegativesPresent) = 2
    /\ probe.scores[1] = 1
    /\ probe.scores[3] = 2
    /\ probe.topic = "sport"

(***************************************************************************)
(* C22.  The title comparison of check_for_duplicates.                     *)
(***************************************************************************)
\* the stored rows published within the last 24 hours
InWindow == {r \in news : r.published >= now - LOOKBACK_HOURS}

\* the similarity ratio of the two titles is above the threshold (of two empty
\* strings the ratio is 1)
RatioAbove(t1, t2) ==
    LET r == calculate_similarity(t1, t2)
    IN  IF r[2] = 0 THEN TRUE ELSE r[1] * 100 > SIMILARITY_THRESHOLD_PCT * r[2]

\* C22: when no stored link matches, check_for_duplicates returns true if and
\* only if a stored row of the last 24 hours, of the given topic when one is
\* given, has a normalized title whose similarity ratio to the normalized incoming
\* title is strictly above SIMILARITY_THRESHOLD.
C22_SimilarTitleIsDuplicate ==
    (/\ probe.stage = "returned"
     /\ \A r \in InWindow : ~LinkLike(r.link, CleanLink(probe.link)))
    => (probe.result
        <=> \E r \in InWindow :
               /\ probe.topic = NoTopic \/ r.topic = probe.topic
               /\ RatioAbove(normalize_title(probe.title), RowNorm(r)))

\* a call for topic sport finds a row of sport whose title has a ratio of exactly
\* 8/10 and a row of another topic with the same title: it returns false
C22_Witness ==
    /\ probe.stage = "returned"
    /\ probe.title = TitleTaxi
    /\ probe.topic = "sport"
    /\ probe.link = LinkC9
    /\ {RowTaxi, RowTaxiAbLegacy} \subseteq news
    /\ calculate_similarity(normalize_title(TitleTaxi), RowNorm(RowTaxiAbLegacy))
           = <<8, 10>>
    /\ ~probe.result

C24_NormalizedTitleConsistent ==
    \A r \in news : r.normalized_title = normalize_title(r.title)

(***************************************************************************)
(* C25.  What the fingerprint depends on.                                  *)
(***************************************************************************)
\* a letter, in either case
IsLetter(c) == c \in LowerLetters \cup UpperLetters

\* the title without its digits and its punctuation, in lower case; the
\* underscore counts as a word character
Skeleton(t) ==
    LET Kept(c) == IsLetter(c) \/ c = "_" \/ c \in Spaces
    IN  Lower(SelectSeq(t, Kept))

\* C25: the keys of two articles are equal exactly when the lower-cased hosts of
\* their links are equal and the first 100 characters of their normalized titles
\* are; so titles that differ in letter case, punctuation or digits only give one
\* key on one host, links that differ in path or query only give one key, and
\* another host gives another key.
C25_FingerprintDependsOn ==
    probe.stage = "keyed" =>
        LET same_host == Lower(Netloc(probe.link)) = Lower(Netloc(probe.other_link))
            same_prefix == Take(probe.norm, FingerprintTitleLen)
                           = Take(normalize_title(probe.other_title), FingerprintTitleLen)
        IN  /\ probe.fp = probe.other_fp <=> same_host /\ same_prefix
            /\ (same_host /\ Skeleton(probe.title) = Skeleton(probe.other_title))
                  => probe.fp = probe.other_fp
            /\ (same_host /\ probe.title = probe.other_title)
                  => probe.fp = probe.other_fp
            /\ ~same_host => probe.fp # probe.other_fp

\* two titles of 101 characters that differ in the last one, on links whose hosts
\* differ in letter case and whose paths differ: one key
C25_Witness ==
    /\ probe.stage = "keyed"
    /\ probe.title = TitleA101
    /\ probe.other_title = TitleA100b
    /\ probe.link = LinkA1u1
    /\ probe.other_link = LinkA2
    /\ probe.fp = probe.other_fp

C28_FallbackOnceThenDefault ==
    probe.stage = "returned" =>
        /\ probe.result.important \in {0, 1}
        /\ probe.forced <= 1
        /\ probe.reply1.kind \in {"nojson", "malformed"} => probe.forced = 1
        /\ (/\ probe.reply1.kind \in {"nojson", "malformed"}
            /\ probe.reply2.kind \in {"error", "nojson", "malformed"})
              => probe.result = [summary |-> Take(probe.title, 300), important |-> 0]

(***************************************************************************)
(* C27.  Summarization in the pipeline.                                    *)
(***************************************************************************)
\* C27 as stated: the summarization step always hands the article on; for the
\* google source it leaves summary = title and important = 0 without asking the
\* LLM; for the other sources it leaves summary = title and important = 0 when
\* the analysis fails, and else the summary and the flag the LLM returned.
C27_SummarizationNeverBlocks ==
    [][\A w \in Workers :
          (wpc[w] = "summarize" /\ wpc'[w] # "summarize")
          => /\ wpc'[w] = "ins_lock"
             /\ Last(hist'[w].trail) = "SUMMARIZED"
             /\ IF SourceOf(w[2]) = "google"
                THEN loc'[w].summary = loc[w].title /\ loc'[w].important = 0
                ELSE \/ loc'[w].summary = loc[w].title /\ loc'[w].important = 0
                     \/ \E r \in PipelineAnalyzeReplies :
                           /\ r.kind = "json"
                           /\ loc'[w].summary = r.summary
                           /\ loc'[w].important = 1]_vars

(***************************************************************************)
(* C29.  The phases of one run.                                            *)
(***************************************************************************)
\* the feed workers of run r
WorkersOf(r) == {w \in Workers : w[1] = r}

\* C29: in a run, the run record exists before a feed is submitted or fetched;
\* pruning begins only when every feed worker of the run has finished, so the
\* run's workers insert only while a pool is open; and the stats are written
\* only by the step that follows the completed pruning.
C29_PhasesOrdered ==
    [][\A r \in Runs :
          /\ (\E w \in WorkersOf(r) : wpc'[w] # "off") => run'[r].newsletter_id # 0
          /\ rpc'[r] \in {"prune_lock", "prune", "update_stats", "returned"}
                => \A w \in WorkersOf(r) : wpc'[w] \in {"off", "done"}
          /\ (\E w \in WorkersOf(r) : wpc[w] # wpc'[w] /\ wpc'[w] # "queued")
                => rpc[r] \in {"base_pool", "google_pool"}
          /\ (rpc'[r] # rpc[r] /\ newsletter_stats' # newsletter_stats)
                => rpc[r] = "update_stats"
          /\ (rpc'[r] = "update_stats" /\ rpc[r] # "update_stats")
                => rpc[r] = "prune" /\ news' \in PruneResults(news, DOMAIN run[r].stats)]_vars

\* a run has returned: a Google-query feed stored an article, a row was pruned
\* away after that, and the stats are written
C29_Witness ==
    /\ rpc["r1"] = "returned"
    /\ \E i \in 1..Len(hist[<<"r1", "g1">>].entries) :
          hist[<<"r1", "g1">>].entries[i] = "STORED"
    /\ Cardinality(news) < next_id - 1
    /\ newsletter_stats # <<>>

(***************************************************************************)
(* C30.  The two worker pools.                                             *)
(***************************************************************************)
\* the feeds of `pool` that a thread of run r is working on
Active(r, pool) == {f \in pool : wpc[<<r, f>>] \notin {"off", "queued", "done"}}

\* C30: in a run at most MAX_PARALLEL_REQUESTS base feeds and at most 2
\* Google-query feeds are being worked on at any moment, and no Google-query feed
\* is submitted or fetched before every base feed of the run has completed.
C30_PoolsBounded ==
    \A r \in Runs :
        /\ Cardinality(Active(r, Sc.base)) <= MAX_PARALLEL_REQUESTS
        /\ Cardinality(Active(r, Sc.queries)) <= 2
        /\ (\E g \in Sc.queries : wpc[<<r, g>>] # "off")
              => \A b \in Sc.base : wpc[<<r, b>>] = "done"

\* three Google-query feeds were submitted: two are being fetched, the third
\* waits for a thread
C30_Witness ==
    /\ scenario = "pools"
    /\ Cardinality(Active("r1", Sc.queries)) = 2
    /\ \E g \in Sc.queries : wpc[<<"r1", g>>] = "queued"

(***************************************************************************)
(* C31.  The stats of a run count the articles the run inserted.           *)
(***************************************************************************)
\* the rows worker w adds to the store in this step
InsertedBy(w) == IF wpc[w] = "insert" /\ wpc'[w] # "insert" THEN news' \ news ELSE {}

\* the result process_news_entry returns for the inserted row x
ResultOf(x) == [id |-> x.id, topic |-> x.topic, important |-> x.important]

\* what the feed workers of run r have returned or will return
ResultsOf(r) == UNION {loc[w].results : w \in WorkersOf(r)}

\* the positions of a run after the stats were computed
AfterStats == {"prune_lock", "prune", "update_stats", "returned"}

\* the number of entries the workers of run r ended by storing an article
StoredByRun(r) ==
    Cardinality({p \in WorkersOf(r) \X (1..MAX_FEED_ENTRIES) :
                    p[2] <= Len(Outcomes(p[1])) /\ Outcomes(p[1])[p[2]] = "STORED"})

\* the sum of the totals of stats
SumOfTotals(stats) ==
    SumSeq([i \in 1..Len(TOPICS) |->
               IF TOPICS[i] \in DOMAIN stats THEN stats[TOPICS[i]].total ELSE 0])

\* C31: a worker's results grow exactly by the row it inserts, one result per row,
\* and by nothing on any other step (a skipped entry adds none); the stats of a
\* run list exactly the topics of the rows its workers inserted, with total the
\* number of those rows and important the number of them flagged important, so
\* important <= total, total >= 1 and the totals sum up to the number of stored
\* entries; update_newsletter_stats writes one row per listed topic with these numbers.
C31_StatsCountInserted ==
    [][\A r \in Runs :
          /\ \A w \in WorkersOf(r) :
                /\ loc'[w].results = loc[w].results \cup {ResultOf(x) : x \in InsertedBy(w)}
                /\ \A x \in InsertedBy(w) : ResultOf(x) \notin ResultsOf(r)
          /\ rpc'[r] \in AfterStats =>
                LET stats == run'[r].stats
                    inserted == ResultsOf(r)'
                IN  /\ DOMAIN stats = {x.topic : x \in inserted}
                    /\ \A t \in DOMAIN stats :
                          /\ stats[t].total = Cardinality({x \in inserted : x.topic = t})
                          /\ stats[t].important =
                                Cardinality({x \in inserted : x.topic = t /\ x.important # 0})
                          /\ stats[t].important <= stats[t].total
                          /\ stats[t].total >= 1
                    /\ SumOfTotals(stats) = StoredByRun(r)'
          /\ (rpc[r] = "update_stats" /\ rpc'[r] = "returned") =>
                \E n \in 0..Len(TOPICS) :
                    /\ Len(newsletter_stats') = Len(newsletter_stats) + n
                    /\ n = Cardinality(DOMAIN run[r].stats)
                    /\ SubSeq(newsletter_stats', 1, Len(newsletter_stats)) = newsletter_stats
                    /\ {newsletter_stats'[i] : i \in (Len(newsletter_stats) + 1)..Len(newsletter_stats')}
                          = {[newsletter_id |-> run[r].newsletter_id, topic |-> t,
                              total_news |-> run[r].stats[t].total,
                              important_news |-> run[r].stats[t].important] :
                                t \in DOMAIN run[r].stats}]_vars

\* a run has returned and written its stats: it stored articles of two topics, one
\* of them flagged important and one not, and it skipped another entry
C31_Witness ==
    /\ rpc["r1"] = "returned"
    /\ newsletter_stats # <<>>
    /\ Cardinality(DOMAIN run["r1"].stats) = 2
    /\ \E t \in DOMAIN run["r1"].stats, u \in DOMAIN run["r1"].stats :
          /\ run["r1"].stats[t].important = 1
          /\ run["r1"].stats[u].important = 0
    /\ \E w \in WorkersOf("r1"), i \in 1..MAX_FEED_ENTRIES :
          i <= Len(Outcomes(w)) /\ Outcomes(w)[i] # "STORED"

(***************************************************************************)
(* C32.  Stored rows are never changed; only pruning removes them.         *)
(***************************************************************************)
\* the topics of the articles the workers of run r stored
StoredTopics(r) == {x.topic : x \in ResultsOf(r)}

\* run r executes its pruning block in this step
Prunes(r) == rpc[r] = "prune" /\ rpc'[r] # "prune"

\* C32: in every step a stored row stays as it is or leaves the store, and a new
\* row takes a fresh id; rows leave the store only in the pruning step of a run,
\* which removes only rows of topics the run stored an article of and keeps every
\* row of the other topics.
C32_RowsNeverChange ==
    [][/\ \A x \in news : x \in news' \/ \A y \in news' : y.id # x.id
       /\ \A y \in news' \ news : \A x \in news : x.id # y.id
       /\ news \ news' # {} =>
             \E r \in Runs :
                 Prunes(r) /\ \A x \in news \ news' : x.topic \in StoredTopics(r)
       /\ \A r \in Runs :
             Prunes(r) =>
                 /\ news' \subseteq news
                 /\ \A x \in news : x.topic \notin StoredTopics(r) => x \in news']_vars

\* the later run has pruned: the article it stored is deleted, and the article
\* the earlier run stored is in the store as it was inserted
C32_Witness ==
    /\ scenario = "rerun"
    /\ rpc["r2"] = "update_stats"
    /\ \E res \in ResultsOf("r2") : \A x \in news : x.id # res.id
    /\ \E x \in news : ResultOf(x) \in ResultsOf("r1") /\ x.fetched_at < now

(***************************************************************************)
(* C33.  An article is created once.                                       *)
(***************************************************************************)
\* C33: when a run made after an earlier run has ended sees an entry again (the
\* same title, link and publish time) whose article the earlier run stored, it
\* does not store the entry, whether or not the article is still in the store.
C33_ArticleCreatedOnce ==
    scenario \in SequentialScenarios =>
        \A f \in FeedNames, g \in FeedNames :
            \A i \in 1..Len(Outcomes(<<"r1", f>>)), j \in 1..Len(Outcomes(<<"r2", g>>)) :
                (/\ EntriesOf(<<"r1", f>>)[i] = EntriesOf(<<"r2", g>>)[j]
                 /\ Outcomes(<<"r1", f>>)[i] = "STORED")
                => Outcomes(<<"r2", g>>)[j] # "STORED"

(***************************************************************************)
(* C34.  The lock is always released; workers and runs terminate.          *)
(***************************************************************************)
\* the positions of a worker inside a `with db_lock:` block
InsideLockPcs == {"fp_read", "dup_read", "recheck", "insert"}

\* the lock is held only by a thread that is inside one of its `with` blocks
HeldInsideBlock ==
    /\ \A w \in Workers : db_lock = w => wpc[w] \in InsideLockPcs
    /\ \A r \in Runs : db_lock = <<r, Main>> => rpc[r] = "prune"

\* every entry of the feed worker w fetched has reached a terminal state
AllEntriesEnded(w) ==
    /\ wpc[w] = "done"
    /\ hist[w].fetch = "ok" => Len(Outcomes(w)) = Len(EntriesOf(w))

\* the lock is free and every submitted feed is worked off
LockFreeWorkersEnded ==
    /\ db_lock = NoOne
    /\ \A w \in Workers : wpc[w] = "off" \/ AllEntriesEnded(w)

NoRunInProgress == \A r \in Runs : rpc[r] \in {"off", "scheduled", "returned", "crashed"}

\* C35: whenever no run is in progress, every topic holds at most
\* MAX_NEWS_PER_TOPIC articles (the store is empty before the first run).
C35_CapBetweenRuns ==
    NoRunInProgress =>
        \A t \in TopicIds : Cardinality(RowsOf(news, t)) <= MAX_NEWS_PER_TOPIC

====
